---- MODULE Spec2Model ----
(***************************************************************************)
(* Schema snapshot / canonicalization / comparison engine of the           *)
(* repository, modelled from the Python sources under src/.                *)
(*                                                                         *)
(* Text is modelled as sequences of one-character strings so that glob     *)
(* matching, whitespace folding, str()/repr() and lexicographic sorting    *)
(* are computed, not assumed.  Python scalars are modelled as records      *)
(* [t, s] with a type tag t and the literal text s.                        *)
(***************************************************************************)
EXTENDS Integers, Sequences, FiniteSets, Bags, TLC

(***************************************************************************)
(* Characters and strings                                                  *)
(***************************************************************************)

\* The characters the model uses, in ascending code-point order.
Alphabet ==
    << "\t", "\n", " ", "'", "*", ",", ".", "0", "1", "2", "3", ":", "?",
       "E", "N", "O", "S", "T", "Y", "[", "\\", "]", "_", "a", "b", "c", "d", "e", "f", "g", "h",
       "i", "j", "k", "l", "m", "n", "o", "p", "q", "r", "s", "t", "u",
       "v", "w", "x", "y", "z", "{", "}" >>

Chars == { Alphabet[i] : i \in 1..Len(Alphabet) }

\* Position of a character in the code-point order.
Ord == [ c \in Chars |-> CHOOSE i \in 1..Len(Alphabet) : Alphabet[i] = c ]

\* str.__lt__ : lexicographic order on character sequences.
RECURSIVE StrLess(_, _)
StrLess(a, b) ==
    IF b = << >> THEN FALSE
    ELSE IF a = << >> THEN TRUE
    ELSE IF Head(a) = Head(b) THEN StrLess(Tail(a), Tail(b))
    ELSE Ord[Head(a)] < Ord[Head(b)]

StrLeq(a, b) == a = b \/ StrLess(a, b)

\* str.isspace for the characters of the alphabet.
IsSpace(c) == c \in { " ", "\n", "\t" }

\* str.split() with no argument: the maximal runs of non-whitespace.
RECURSIVE SplitWs(_, _, _)
SplitWs(s, cur, acc) ==
    IF s = << >>
    THEN IF cur = << >> THEN acc ELSE Append(acc, cur)
    ELSE IF IsSpace(Head(s))
         THEN SplitWs(Tail(s), << >>, IF cur = << >> THEN acc ELSE Append(acc, cur))
         ELSE SplitWs(Tail(s), Append(cur, Head(s)), acc)

\* " ".join(tokens)
RECURSIVE JoinSp(_)
JoinSp(toks) ==
    IF toks = << >> THEN << >>
    ELSE IF Len(toks) = 1 THEN toks[1]
    ELSE toks[1] \o << " " >> \o JoinSp(Tail(toks))

\* Every whitespace character replaced by a space, runs and ends kept.
SpacesForWhitespace(s) == [ i \in 1..Len(s) |-> IF IsSpace(s[i]) THEN " " ELSE s[i] ]

\* Whitespace folding of a (non-None) string: " ".join(s.split()).
FoldWs(s) == JoinSp(SplitWs(s, << >>, << >>))

(***************************************************************************)
(* Python scalars                                                          *)
(***************************************************************************)

PyNone == [t |-> "none", s |-> << >>]
PyStr(cs) == [t |-> "str", s |-> cs]
PyInt(ds) == [t |-> "int", s |-> ds]

\* Truthiness of a scalar: None, "" and 0 are falsy.
Falsy(v) ==
    \/ v.t = "none"
    \/ v.t = "str" /\ v.s = << >>
    \/ v.t = "int" /\ v.s = << "0" >>

\* The expression (v or None).
OrNone(v) == IF Falsy(v) THEN PyNone ELSE v

\* The expression (v or "").
OrEmpty(v) == IF Falsy(v) THEN PyStr(<< >>) ELSE v

\* A normalizer that keeps the text as it is.
norm_sql_verbatim(v) == OrEmpty(v)

\* norm_sql of the JSON comparator: " ".join((s or "").split()).
norm_sql(v) == PyStr(FoldWs(OrEmpty(v).s))

\* sha256(...).hexdigest(), taken as injective: the digest stands for its text.
Sha256(v) == [t |-> "hash", s |-> v.s]

(***************************************************************************)
(* Ignore rules                                                            *)
(***************************************************************************)

\* fnmatch.fnmatch(name, pat) for patterns made of literals, "*" and "?"
\* (anchored, case-sensitive on POSIX).
RECURSIVE fnmatch(_, _)
fnmatch(name, pat) ==
    IF pat = << >> THEN name = << >>
    ELSE IF Head(pat) = "*"
         THEN fnmatch(name, Tail(pat))
              \/ (name # << >> /\ fnmatch(Tail(name), pat))
    ELSE IF Head(pat) = "?"
         THEN name # << >> /\ fnmatch(Tail(name), Tail(pat))
    ELSE name # << >> /\ Head(name) = Head(pat) /\ fnmatch(Tail(name), Tail(pat))

\* f"{schema}.{table}"
Dotted(schema, table) == schema \o << "." >> \o table

(***************************************************************************)
(* Generic trees and canonicalize (tools/normalize.py)                     *)
(*                                                                         *)
(* A tree node is [t, s, k, c]: t is the Python type, s the literal text   *)
(* of a scalar, k the keys of a dict in insertion order and c the children *)
(* (list items, or dict values in key order).  Strings of the model hold   *)
(* no quote characters; str() of these types never raises, so the except   *)
(* branch of canonicalize is not reachable.                                *)
(***************************************************************************)

NScalar(v) == [t |-> v.t, s |-> v.s, k |-> << >>, c |-> << >>]
NList(items) == [t |-> "list", s |-> << >>, k |-> << >>, c |-> items]
NDict(keys, vals) == [t |-> "dict", s |-> << >>, k |-> keys, c |-> vals]

\* The escapes repr() applies to the whitespace of the alphabet.
RECURSIVE ReprEscape(_)
ReprEscape(s) ==
    IF s = << >> THEN << >>
    ELSE (CASE Head(s) = "\n" -> << "\\", "n" >>
            [] Head(s) = "\t" -> << "\\", "t" >>
            [] Head(s) = "\\" -> << "\\", "\\" >>
            [] OTHER -> << Head(s) >>) \o ReprEscape(Tail(s))

\* ", ".join(parts)
RECURSIVE JoinComma(_)
JoinComma(parts) ==
    IF parts = << >> THEN << >>
    ELSE IF Len(parts) = 1 THEN parts[1]
    ELSE parts[1] \o << ",", " " >> \o JoinComma(Tail(parts))

\* repr(x)
RECURSIVE PyRepr(_)
PyRepr(x) ==
    CASE x.t = "none" -> << "N", "o", "n", "e" >>
      [] x.t = "int" -> x.s
      [] x.t = "str" -> << "'" >> \o ReprEscape(x.s) \o << "'" >>
      [] x.t = "list" ->
            << "[" >> \o JoinComma([i \in 1..Len(x.c) |-> PyRepr(x.c[i])]) \o << "]" >>
      [] x.t = "dict" ->
            << "{" >>
            \o JoinComma([i \in 1..Len(x.c) |->
                   << "'" >> \o ReprEscape(x.k[i]) \o << "'", ":", " " >> \o PyRepr(x.c[i])])
            \o << "}" >>

\* str(x): the text itself for a string, repr(x) otherwise.
PyStrOf(x) == IF x.t = "str" THEN x.s ELSE PyRepr(x)

\* _norm_sql of normalize.py: a non-string is returned unchanged.
_norm_sql(x) == IF x.t # "str" THEN x ELSE [x EXCEPT !.s = FoldWs(x.s)]

\* One step of an insertion sort that reverses elements of equal key, as
\* sorted(items, key=str, reverse=True)[::-1] would.
RECURSIVE InsertByStrUnstable(_, _)
InsertByStrUnstable(sorted, x) ==
    IF sorted = << >> THEN << x >>
    ELSE IF StrLeq(PyStrOf(x), PyStrOf(Head(sorted)))
         THEN << x >> \o sorted
         ELSE << Head(sorted) >> \o InsertByStrUnstable(Tail(sorted), x)

\* One step of a stable insertion sort by key str(x): x goes after every
\* element whose key is less than or equal to its own.
RECURSIVE InsertByStr(_, _)
InsertByStr(sorted, x) ==
    IF sorted = << >> THEN << x >>
    ELSE IF StrLess(PyStrOf(x), PyStrOf(Head(sorted)))
         THEN << x >> \o sorted
         ELSE << Head(sorted) >> \o InsertByStr(Tail(sorted), x)

\* sorted(items, key=lambda x: str(x)): stable.
RECURSIVE SortedByStr(_, _)
SortedByStr(items, acc) ==
    IF items = << >> THEN acc
    ELSE SortedByStr(Tail(items), InsertByStr(acc, Head(items)))

\* Insert the entry (key, val) into a dict node whose keys are sorted.
RECURSIVE InsertKey(_, _, _, _)
InsertKey(keys, vals, key, val) ==
    IF keys = << >> THEN << << key >>, << val >> >>
    ELSE IF StrLess(key, Head(keys))
         THEN << << key >> \o keys, << val >> \o vals >>
         ELSE LET r == InsertKey(Tail(keys), Tail(vals), key, val)
              IN  << << Head(keys) >> \o r[1], << Head(vals) >> \o r[2] >>

\* {k: new_items[k] for k in sorted(new_items.keys())}
RECURSIVE SortedByKey(_, _, _)
SortedByKey(keys, vals, acc) ==
    IF keys = << >> THEN NDict(acc[1], acc[2])
    ELSE SortedByKey(Tail(keys), Tail(vals),
                     InsertKey(acc[1], acc[2], Head(keys), Head(vals)))

\* A canonicalize that treats the outermost container only.
canonicalize_top_level(obj, ignore_keys, normalize_sql_keys) ==
    IF obj.t = "dict"
    THEN LET kept == SelectSeq([i \in 1..Len(obj.k) |-> i],
                               LAMBDA i : obj.k[i] \notin ignore_keys)
         IN  SortedByKey([j \in 1..Len(kept) |-> obj.k[kept[j]]],
                         [j \in 1..Len(kept) |-> obj.c[kept[j]]],
                         << << >>, << >> >>)
    ELSE IF obj.t = "list" THEN NList(SortedByStr(obj.c, << >>))
    ELSE obj

\* canonicalize(obj, ignore_keys, normalize_sql_keys)
RECURSIVE canonicalize(_, _, _)
canonicalize(obj, ignore_keys, normalize_sql_keys) ==
    IF obj.t = "dict"
    THEN LET kept == SelectSeq([i \in 1..Len(obj.k) |-> i],
                               LAMBDA i : obj.k[i] \notin ignore_keys)
             v_can(i) ==
                LET v == canonicalize(obj.c[i], ignore_keys, normalize_sql_keys)
                IN  IF obj.k[i] \in normalize_sql_keys /\ v.t = "str"
                    THEN _norm_sql(v) ELSE v
         IN  SortedByKey([j \in 1..Len(kept) |-> obj.k[kept[j]]],
                         [j \in 1..Len(kept) |-> v_can(kept[j])],
                         << << >>, << >> >>)
    ELSE IF obj.t = "list"
    THEN NList(SortedByStr(
             [i \in 1..Len(obj.c) |->
                 canonicalize(obj.c[i], ignore_keys, normalize_sql_keys)],
             << >>))
    ELSE obj


(***************************************************************************)
(* Inputs of canonicalize: all trees of at most MaxNodes nodes              *)
(***************************************************************************)

\* Bound: the number of nodes (scalars, lists, dicts) of an input tree.
MaxNodes == 4

\* The scalar leaves: None, 1, "1", "a", " b".  1 and "1" have the same str().
TreeScalars ==
    { NScalar(PyNone), NScalar(PyInt(<< "1" >>)), NScalar(PyStr(<< "1" >>)),
      NScalar(PyStr(<< "a" >>)), NScalar(PyStr(<< " ", "b" >>)) }

\* The dict keys of the inputs: "d" (a definition text) and "i" (an id).
TreeKeys == { << "d" >>, << "i" >> }

\* The two configurations canonicalize is run with: no keys, or ignore "i"
\* and normalize "d".
CanonConfigs ==
    { [ign |-> { }, nrm |-> { }], [ign |-> { << "i" >> }, nrm |-> { << "d" >> }] }

\* Sequences of distinct keys of length n.
KeySeqs(n) ==
    { ks \in [1..n -> TreeKeys] : \A i, j \in 1..n : i # j => ks[i] # ks[j] }

RECURSIVE TreesOfSize(_), ForestsOfSize(_)
\* The trees of exactly n nodes.
TreesOfSize(n) ==
    IF n = 1 THEN TreeScalars \cup { NList(<< >>), NDict(<< >>, << >>) }
    ELSE { NList(f) : f \in ForestsOfSize(n - 1) }
         \cup UNION { { NDict(ks, f) : ks \in KeySeqs(Len(f)) } : f \in ForestsOfSize(n - 1) }

\* The non-empty sequences of trees of n nodes in total.
ForestsOfSize(n) ==
    IF n = 0 THEN { << >> }
    ELSE UNION { { << x >> \o rest : x \in TreesOfSize(j), rest \in ForestsOfSize(n - j) }
                 : j \in 1..n }

Trees == UNION { TreesOfSize(n) : n \in 1..MaxNodes }

\* The permutations of 1..n.
PermsOfLen(n) == { p \in [1..n -> 1..n] : \A i, j \in 1..n : i # j => p[i] # p[j] }

\* The sequences whose i-th element is drawn from sets[i].
RECURSIVE SeqProduct(_)
SeqProduct(sets) ==
    IF sets = << >> THEN { << >> }
    ELSE { << x >> \o rest : x \in Head(sets), rest \in SeqProduct(Tail(sets)) }

\* The trees obtained from x by permuting the elements of lists inside x.
RECURSIVE Reorderings(_)
Reorderings(x) ==
    IF x.t = "list"
    THEN UNION { { NList([i \in 1..Len(kids) |-> kids[p[i]]]) : p \in PermsOfLen(Len(kids)) }
                 : kids \in SeqProduct([i \in 1..Len(x.c) |-> Reorderings(x.c[i])]) }
    ELSE IF x.t = "dict"
    THEN { NDict(x.k, kids) : kids \in SeqProduct([i \in 1..Len(x.c) |-> Reorderings(x.c[i])]) }
    ELSE { x }

\* The value of an output that has not been computed yet.
NoTree == [t |-> "unset", s |-> << >>, k |-> << >>, c |-> << >>]


(***************************************************************************)
(* Findings                                                                *)
(*                                                                         *)
(* Every "[FAIL] ..." line a comparator prints (and every assertion a      *)
(* pytest test fails with) is one finding.  In the sources each such print *)
(* is paired with rc = 1, so a check's return code is 1 exactly when it    *)
(* printed something.                                                      *)
(*   cat    the check that printed it                                      *)
(*   kind   "missing", "unexpected" or "changed"                           *)
(*   tables the <<schema, table>> pairs the message names                  *)
(*   keys   the entities the message lists                                 *)
(*   field, want, have   the detail of a changed value                     *)
(***************************************************************************)

Finding(cat, kind, tables, keys, field, want, have) ==
    [cat |-> cat, kind |-> kind, tables |-> tables, keys |-> keys,
     field |-> field, want |-> want, have |-> have]

\* A finding that lists entities and carries no changed value.
Listing(cat, kind, tables, keys) ==
    Finding(cat, kind, tables, keys, "", PyNone, PyNone)

\* The return code of a check that printed the findings out.
RcOf(out) == IF out = << >> THEN 0 ELSE 1

\* Concatenation of a sequence of sequences.
RECURSIVE Flatten(_)
Flatten(ss) == IF ss = << >> THEN << >> ELSE Head(ss) \o Flatten(Tail(ss))

\* The elements of a sequence.
Range(q) == { q[i] : i \in 1..Len(q) }

\* The multiset of the elements of a sequence: sorted(a) == sorted(b) holds
\* exactly when a and b have the same multiset of elements.
BagOfSeq(q) == [ x \in Range(q) |-> Cardinality({ i \in 1..Len(q) : q[i] = x }) ]

(***************************************************************************)
(* Ignore configuration (test_schema_json.py, main, lines 279-285)         *)
(*   tables         list of glob patterns                                  *)
(*   columns        set of <<"schema.table", set of column names>>         *)
(*   column_fields  set of field names                                     *)
(*   grantees, privs  sets of names                                        *)
(***************************************************************************)

_should_ignore_table(ignore_globs, schema, table) ==
    \E i \in 1..Len(ignore_globs) : fnmatch(Dotted(schema, table), ignore_globs[i])

\* A lookup that takes a column listed under any table as ignored in every table.
_ignored_column_anywhere(columns_ignore_map, schema, table, col) ==
    \E e \in columns_ignore_map : col \in e[2]

_ignored_column(columns_ignore_map, schema, table, col) ==
    \E e \in columns_ignore_map : e[1] = Dotted(schema, table) /\ col \in e[2]

(***************************************************************************)
(* Table comparison (test_schema_json.py, cmp_tables)                      *)
(***************************************************************************)

\* The column fields, in the order the exporter writes them.
FieldOrder ==
    << "data_type", "is_nullable", "char_max", "num_precision", "num_scale",
       "datetime_precision", "default", "is_identity" >>

Fields == Range(FieldOrder)

\* The dict the comparator builds from one row of SQL_LIST_COLUMNS.
ActualMeta(r) ==
    [ k \in Fields |->
        CASE k = "data_type" ->
                IF ~Falsy(r.udt_name) THEN r.udt_name ELSE OrEmpty(r.data_type)
          [] k = "is_nullable" -> OrEmpty(r.is_nullable)
          [] k = "char_max" -> r.character_maximum_length
          [] k = "num_precision" -> r.numeric_precision
          [] k = "num_scale" -> r.numeric_scale
          [] k = "datetime_precision" -> r.datetime_precision
          [] k = "default" -> r.column_default
          [] k = "is_identity" -> OrEmpty(r.is_identity) ]

\* actual[cname] for a column the live table has.
ActualOf(rows, cname) ==
    LET i == CHOOSE j \in 1..Len(rows) :
                 rows[j].column_name = cname
                 /\ \A m \in (j + 1)..Len(rows) : rows[m].column_name # cname
    IN  ActualMeta(rows[i])

\* Strict comparison of a snapshot value with a live value.
ValuesDifferStrict(wv, av) == wv # av

\* (wv or None) != (av or None)
ValuesDiffer(wv, av) == OrNone(wv) # OrNone(av)

\* The fields of a snapshot column, in order.
MetaKeys(meta) == SelectSeq(FieldOrder, LAMBDA k : k \in DOMAIN meta)

\* Lines 61-69: the findings of one snapshot column.
ColumnFindings(schema, name, c, rows, column_fields_ignore) ==
    IF c.name \notin { rows[i].column_name : i \in 1..Len(rows) }
    THEN << Listing("columns", "missing", { << schema, name >> },
                    { << schema, name, c.name >> }) >>
    ELSE LET actual == ActualOf(rows, c.name)
             ks == SelectSeq(MetaKeys(c.meta), LAMBDA k : k \notin column_fields_ignore)
             bad == SelectSeq(ks, LAMBDA k : ValuesDiffer(c.meta[k], actual[k]))
         IN  [ i \in 1..Len(bad) |->
                 Finding("columns", "changed", { << schema, name >> },
                         { << schema, name, c.name >> },
                         bad[i], c.meta[bad[i]], actual[bad[i]]) ]

\* Lines 60-73: missing, changed and unexpected columns of one table.
ColumnsCheck(obj, rows, ignore) ==
    LET schema == obj.schema
        name == obj.name
        want_cols == SelectSeq(obj.columns,
                        LAMBDA c : ~_ignored_column(ignore.columns, schema, name, c.name))
        extra == { rows[i].column_name : i \in 1..Len(rows) }
                 \ ( { cn \in { rows[i].column_name : i \in 1..Len(rows) } :
                          _ignored_column(ignore.columns, schema, name, cn) }
                     \cup { want_cols[i].name : i \in 1..Len(want_cols) } )
    IN  Flatten([ i \in 1..Len(want_cols) |->
                    ColumnFindings(schema, name, want_cols[i], rows, ignore.column_fields) ])
        \o (IF extra # { }
            THEN << Listing("columns", "unexpected", { << schema, name >> },
                            { << schema, name, cn >> : cn \in extra }) >>
            ELSE << >>)

\* Lines 75-87: the primary key, compared as a list.
PkCheck(obj, pk_rows) ==
    LET t == { << obj.schema, obj.name >> }
    IN  IF obj.primary_key # << >>
        THEN IF pk_rows = << >>
             THEN << Listing("pk", "missing", t, t) >>
             ELSE IF obj.primary_key[1].columns # pk_rows[1].colnames
                  THEN << Finding("pk", "changed", t, t, "columns",
                                  obj.primary_key[1].columns, pk_rows[1].colnames) >>
                  ELSE << >>
        ELSE IF pk_rows # << >>
             THEN << Listing("pk", "unexpected", t, t) >>
             ELSE << >>

\* Lines 89-93: the UNIQUE constraints, compared as sorted lists of column tuples.
UniqueCheck(obj, uq_rows) ==
    LET t == { << obj.schema, obj.name >> }
        want_uqs == [ i \in 1..Len(obj.uniques) |-> obj.uniques[i].columns ]
        have_uqs == [ i \in 1..Len(uq_rows) |-> uq_rows[i].colnames ]
    IN  IF BagOfSeq(want_uqs) # BagOfSeq(have_uqs)
        THEN << Finding("unique", "changed", t, t, "columns", want_uqs, have_uqs) >>
        ELSE << >>


\* The distinct values of f over a sequence, in order of first occurrence
\* (the key order of a dict filled in a loop).
RECURSIVE FirstSeen(_, _)
FirstSeen(q, acc) ==
    IF q = << >> THEN acc
    ELSE FirstSeen(Tail(q), IF Head(q) \in Range(acc) THEN acc ELSE Append(acc, Head(q)))

\* One step of a stable insertion sort of FK rows by local column name.
RECURSIVE InsertByColumn(_, _)
InsertByColumn(sorted, r) ==
    IF sorted = << >> THEN << r >>
    ELSE IF StrLess(r.column_name, Head(sorted).column_name)
         THEN << r >> \o sorted
         ELSE << Head(sorted) >> \o InsertByColumn(Tail(sorted), r)

\* sorted(lst, key=lambda x: x[0]): by local column name.
RECURSIVE SortedByColumn(_, _)
SortedByColumn(rows, acc) ==
    IF rows = << >> THEN acc
    ELSE SortedByColumn(Tail(rows), InsertByColumn(acc, Head(rows)))

\* One step of a stable insertion sort of FK rows by ordinal position.
RECURSIVE InsertByOrdinal(_, _)
InsertByOrdinal(sorted, r) ==
    IF sorted = << >> THEN << r >>
    ELSE IF r.ordinal_position < Head(sorted).ordinal_position
         THEN << r >> \o sorted
         ELSE << Head(sorted) >> \o InsertByOrdinal(Tail(sorted), r)

\* The rows in the order of their arrival, not sorted.
ArrivalOrder(rows, acc) == rows

\* sorted(rows, key=lambda x: x.ordinal_position or 0)
RECURSIVE SortedByOrdinal(_, _)
SortedByOrdinal(rows, acc) ==
    IF rows = << >> THEN acc
    ELSE SortedByOrdinal(Tail(rows), InsertByOrdinal(acc, Head(rows)))

\* The constraint names of FK rows, in order of first occurrence.
FkNames(rows) == FirstSeen([ i \in 1..Len(rows) |-> rows[i].constraint_name ], << >>)

FkGroup(rows, cname) == SelectSeq(rows, LAMBDA r : r.constraint_name = cname)

\* Lines 96-99: the FK tuples of the snapshot.
WantFks(obj) ==
    [ i \in 1..Len(obj.foreign_keys) |->
        LET fk == obj.foreign_keys[i]
        IN  << fk.name, fk.ref_schema, fk.ref_table,
               [ j \in 1..Len(fk.columns) |-> << fk.columns[j].local, fk.columns[j].remote >> ] >> ]

\* Lines 101-110: the FK tuples of the live table; each group is sorted by
\* local column name.
HaveFks(fk_rows) ==
    LET names == FkNames(fk_rows)
    IN  [ i \in 1..Len(names) |->
            LET lst_sorted == SortedByColumn(FkGroup(fk_rows, names[i]), << >>)
            IN  << names[i], lst_sorted[1].foreign_table_schema,
                   lst_sorted[1].foreign_table_name,
                   [ j \in 1..Len(lst_sorted) |->
                       << lst_sorted[j].column_name, lst_sorted[j].foreign_column_name >> ] >> ]

\* Lines 95-113: the foreign keys, compared as sorted lists of tuples.
FkCheck(obj, fk_rows) ==
    LET t == { << obj.schema, obj.name >> }
    IN  IF BagOfSeq(WantFks(obj)) # BagOfSeq(HaveFks(fk_rows))
        THEN << Finding("fk", "changed", t, t, "foreign_keys",
                        WantFks(obj), HaveFks(fk_rows)) >>
        ELSE << >>

\* A table the live database does not have: every query returns no rows.
NoTable == [cols |-> << >>, pk |-> << >>, uqs |-> << >>, fks |-> << >>]

\* The rows the queries of one table return.
LiveTable(db, schema, name) ==
    IF << schema, name >> \in DOMAIN db.tables THEN db.tables[<< schema, name >>] ELSE NoTable

\* An iteration that reports a missing table and goes on with its sub-checks.
cmp_tables_file_through(obj, db, ignore) ==
    LET live == LiveTable(db, obj.schema, obj.name)
    IN  IF _should_ignore_table(ignore.tables, obj.schema, obj.name) THEN << >>
        ELSE (IF live.cols = << >>
              THEN << Listing("tables", "missing", { << obj.schema, obj.name >> },
                              { << obj.schema, obj.name >> }) >>
              ELSE << >>)
             \o ColumnsCheck(obj, live.cols, ignore)
             \o PkCheck(obj, live.pk)
             \o UniqueCheck(obj, live.uqs)
             \o FkCheck(obj, live.fks)

\* Lines 38-113: one iteration of the loop of cmp_tables, for one snapshot file.
cmp_tables_file(obj, db, ignore) ==
    LET live == LiveTable(db, obj.schema, obj.name)
    IN  IF _should_ignore_table(ignore.tables, obj.schema, obj.name) THEN << >>
        ELSE IF live.cols = << >>
        THEN << Listing("tables", "missing", { << obj.schema, obj.name >> },
                        { << obj.schema, obj.name >> }) >>
        ELSE ColumnsCheck(obj, live.cols, ignore)
             \o PkCheck(obj, live.pk)
             \o UniqueCheck(obj, live.uqs)
             \o FkCheck(obj, live.fks)

\* f"{schema}.{table}.json", the name of a table's snapshot file.
FileName(obj) == Dotted(obj.schema, obj.name) \o << ".", "j", "s", "o", "n" >>

\* One step of an insertion sort of snapshot files by file name.
RECURSIVE InsertByFileName(_, _)
InsertByFileName(sorted, obj) ==
    IF sorted = << >> THEN << obj >>
    ELSE IF StrLess(FileName(obj), FileName(Head(sorted)))
         THEN << obj >> \o sorted
         ELSE << Head(sorted) >> \o InsertByFileName(Tail(sorted), obj)

\* sorted(want_files), line 37.
RECURSIVE SortedFiles(_, _)
SortedFiles(files, acc) ==
    IF files = << >> THEN acc
    ELSE SortedFiles(Tail(files), InsertByFileName(acc, Head(files)))


(***************************************************************************)
(* Global objects (test_schema_json.py, cmp_views .. cmp_table_privileges) *)
(*                                                                         *)
(* A global snapshot file is [exists, rows]: rows is the list json.load    *)
(* returns.  The row source applies the schema filter of each query.       *)
(***************************************************************************)

\* The index of the last element of q that satisfies P (a dict keeps the
\* value written last).
LastIndex(q, P(_)) ==
    CHOOSE i \in 1..Len(q) : P(q[i]) /\ \A j \in (i + 1)..Len(q) : ~P(q[j])

\* schema = ANY(:include_schemas) AND schema NOT IN :exclude_schemas
InSchemas(schema, include_schemas, exclude_schemas) ==
    schema \in include_schemas /\ schema \notin exclude_schemas

\* Lines 117-132.
cmp_views(file, db) ==
    IF ~file.exists THEN << >>
    ELSE LET wkeys == FirstSeen([ i \in 1..Len(file.rows) |->
                                    << file.rows[i].schema, file.rows[i].name >> ], << >>)
             wdef(key) ==
                norm_sql(file.rows[LastIndex(file.rows,
                             LAMBDA v : << v.schema, v.name >> = key)].definition_norm)
             rows == SelectSeq(db.views,
                        LAMBDA r : InSchemas(r.table_schema,
                                             { wkeys[i][1] : i \in 1..Len(wkeys) }, { }))
             hkeys == { << rows[i].table_schema, rows[i].table_name >> : i \in 1..Len(rows) }
             hdef(key) ==
                norm_sql(rows[LastIndex(rows,
                             LAMBDA r : << r.table_schema, r.table_name >> = key)].definition)
         IN  Flatten([ i \in 1..Len(wkeys) |->
                IF wkeys[i] \notin hkeys
                THEN << Listing("views", "missing", { }, { wkeys[i] }) >>
                ELSE IF hdef(wkeys[i]) # wdef(wkeys[i])
                     THEN << Finding("views", "changed", { }, { wkeys[i] }, "definition",
                                     wdef(wkeys[i]), hdef(wkeys[i])) >>
                     ELSE << >> ])

\* Lines 134-152.
cmp_functions(file, db) ==
    IF ~file.exists THEN << >>
    ELSE LET wkey(f) == << f.schema, f.name, f.args >>
             hkey(r) == << r.schema, r.name, OrEmpty(r.args).s >>
             wkeys == FirstSeen([ i \in 1..Len(file.rows) |-> wkey(file.rows[i]) ], << >>)
             wh(key) ==
                file.rows[LastIndex(file.rows, LAMBDA f : wkey(f) = key)].definition_hash
             rows == SelectSeq(db.functions,
                        LAMBDA r : InSchemas(r.schema,
                                             { wkeys[i][1] : i \in 1..Len(wkeys) }, { }))
             hkeys == { hkey(rows[i]) : i \in 1..Len(rows) }
             hh(key) ==
                Sha256(norm_sql(rows[LastIndex(rows, LAMBDA r : hkey(r) = key)].definition))
         IN  Flatten([ i \in 1..Len(wkeys) |->
                IF wkeys[i] \notin hkeys
                THEN << Listing("functions", "missing", { }, { wkeys[i] }) >>
                ELSE IF hh(wkeys[i]) # wh(wkeys[i])
                     THEN << Finding("functions", "changed", { }, { wkeys[i] },
                                     "definition_hash", wh(wkeys[i]), hh(wkeys[i])) >>
                     ELSE << >> ])

\* Lines 168-171, 195-198, ...: "if want != have", then the two differences.
SetDiffFindings(cat, want, have, TablesOf(_)) ==
    IF want # have
    THEN (IF want \ have # { }
          THEN << Listing(cat, "missing", TablesOf(want \ have), want \ have) >>
          ELSE << >>)
         \o (IF have \ want # { }
             THEN << Listing(cat, "unexpected", TablesOf(have \ want), have \ want) >>
             ELSE << >>)
    ELSE << >>

NoTables(items) == { }

\* Lines 154-172.
cmp_roles(roles_file, members_file, db) ==
    (IF roles_file.exists
     THEN LET want_roles == { roles_file.rows[i].name : i \in 1..Len(roles_file.rows) }
              have_roles == { db.roles[i].rolname : i \in 1..Len(db.roles) }
          IN  IF want_roles \ have_roles # { }
              THEN << Listing("roles", "missing", { }, want_roles \ have_roles) >>
              ELSE << >>
     ELSE << >>)
    \o (IF members_file.exists
        THEN SetDiffFindings("role_memberships",
                 { << members_file.rows[i].role, members_file.rows[i].member >> :
                       i \in 1..Len(members_file.rows) },
                 { << db.role_members[i].role, db.role_members[i].member >> :
                       i \in 1..Len(db.role_members) },
                 NoTables)
        ELSE << >>)

\* The tables the ownership tuples (schema, sequence, table_schema, table, column) name.
OwnershipTables(items) == { << o[3], o[4] >> : o \in items }

\* Lines 190 and 192-194: the ownership tuples of the snapshot and of the live database.
WantOwns(rows) ==
    { << rows[i].schema, rows[i].sequence, rows[i].table_schema, rows[i].table,
         rows[i].column >> : i \in 1..Len(rows) }

HaveOwns(db) ==
    { << r.schema_name.s, r.sequence_name, OrEmpty(r.table_schema).s,
         OrEmpty(r.table_name).s, OrEmpty(r.column_name).s >> :
      r \in { x \in Range(db.seq_owned) : x.schema_name.t # "none" } }

\* Lines 174-199.
cmp_sequences(seq_file, owns_file, db) ==
    (IF seq_file.exists
     THEN LET want == { << seq_file.rows[i].schema, seq_file.rows[i].name >> :
                           i \in 1..Len(seq_file.rows) }
              rows == SelectSeq(db.sequences,
                         LAMBDA r : InSchemas(r.sequence_schema, { k[1] : k \in want }, { }))
              have == { << rows[i].sequence_schema, rows[i].sequence_name >> :
                           i \in 1..Len(rows) }
          IN  IF want # { } /\ want \ have # { }
              THEN << Listing("sequences", "missing", { }, want \ have) >>
              ELSE << >>
     ELSE << >>)
    \o (IF owns_file.exists
        THEN SetDiffFindings("seq_ownerships", WantOwns(owns_file.rows), HaveOwns(db),
                             OwnershipTables)
        ELSE << >>)

\* The tables that tuples starting with (schema, table, ...) name.
LeadingTables(items) == { << x[1], x[2] >> : x \in items }

\* Lines 201-213.
cmp_indexes(file, db, ignore, include_schemas, exclude_schemas) ==
    IF ~file.exists THEN << >>
    ELSE LET all == { << file.rows[i].schema, file.rows[i].table, file.rows[i].name,
                         file.rows[i].definition >> : i \in 1..Len(file.rows) }
             want == { t \in all : ~_should_ignore_table(ignore.tables, t[1], t[2]) }
             rows == SelectSeq(db.indexes,
                        LAMBDA r : InSchemas(r.schemaname, include_schemas, exclude_schemas))
             have == { << r.schemaname, r.tablename, r.indexname, r.indexdef >> :
                       r \in { x \in Range(rows) :
                                 ~_should_ignore_table(ignore.tables, x.schemaname, x.tablename) } }
         IN  SetDiffFindings("indexes", want, have, LeadingTables)

\* sorted(set of strings), as a tuple.
RECURSIVE SortedStrs(_)
SortedStrs(S) ==
    IF S = { } THEN << >>
    ELSE LET m == CHOOSE x \in S : \A y \in S : StrLeq(x, y)
         IN  << m >> \o SortedStrs(S \ { m })

\* One trigger per row, with the event of the row.
HaveTriggersPerRow(rows, ignore) ==
    { << r.table_schema, r.table_name, r.trigger_name, OrEmpty(r.action_timing),
         << r.event_manipulation >> >> :
      r \in { q \in Range(rows) :
                ~_should_ignore_table(ignore.tables, q.table_schema, q.table_name) } }

\* Lines 223-230: one trigger per (table_schema, table, trigger_name); the
\* timing is that of the last row, the events are the sorted set of all rows.
HaveTriggers(rows, ignore) ==
    LET kept == SelectSeq(rows,
                    LAMBDA r : ~_should_ignore_table(ignore.tables, r.table_schema, r.table_name))
        key(r) == << r.table_schema, r.table_name, r.trigger_name >>
    IN  { << k[1], k[2], k[3],
             OrEmpty(kept[LastIndex(kept, LAMBDA r : key(r) = k)].action_timing),
             SortedStrs({ kept[i].event_manipulation :
                            i \in { j \in 1..Len(kept) : key(kept[j]) = k } }) >> :
          k \in { key(kept[i]) : i \in 1..Len(kept) } }

\* Lines 215-236.
cmp_triggers(file, db, ignore, include_schemas, exclude_schemas) ==
    IF ~file.exists THEN << >>
    ELSE LET all == { << file.rows[i].table_schema, file.rows[i].table, file.rows[i].name,
                         file.rows[i].timing, file.rows[i].events >> :
                      i \in 1..Len(file.rows) }
             want_set == { w \in all : ~_should_ignore_table(ignore.tables, w[1], w[2]) }
             rows == SelectSeq(db.triggers,
                        LAMBDA r : InSchemas(r.table_schema, include_schemas, exclude_schemas))
         IN  SetDiffFindings("triggers", want_set, HaveTriggers(rows, ignore), LeadingTables)

\* Lines 238-249.
cmp_table_owners(file, db, ignore, include_schemas, exclude_schemas) ==
    IF ~file.exists THEN << >>
    ELSE LET want == { << o.schema, o.table, o.owner >> :
                       o \in { x \in Range(file.rows) :
                                 ~_should_ignore_table(ignore.tables, x.schema, x.table) } }
             rows == SelectSeq(db.table_owners,
                        LAMBDA r : InSchemas(r.schema, include_schemas, exclude_schemas))
             have == { << r.schema, r.table, r.owner >> :
                       r \in { x \in Range(rows) :
                                 ~_should_ignore_table(ignore.tables, x.schema, x.table) } }
         IN  SetDiffFindings("table_owners", want, have, LeadingTables)

\* str.lower() for the letters of the alphabet.
Lower(s) ==
    [ i \in 1..Len(s) |->
        CASE s[i] = "E" -> "e" [] s[i] = "N" -> "n" [] s[i] = "O" -> "o"
          [] s[i] = "S" -> "s" [] s[i] = "T" -> "t" [] s[i] = "Y" -> "y"
          [] OTHER -> s[i] ]

\* Lines 251-267.
cmp_table_privileges(file, db, ignore, include_schemas, exclude_schemas) ==
    IF ~file.exists THEN << >>
    ELSE LET want == { << g.schema, g.table, g.grantee, g.privilege, g.is_grantable >> :
                       g \in { x \in Range(file.rows) :
                                 /\ ~_should_ignore_table(ignore.tables, x.schema, x.table)
                                 /\ x.grantee \notin ignore.grantees
                                 /\ x.privilege \notin ignore.privs } }
             rows == SelectSeq(db.table_privileges,
                        LAMBDA r : InSchemas(r.table_schema, include_schemas, exclude_schemas))
             have == { << r.table_schema, r.table_name, r.grantee, r.privilege_type,
                          Lower(r.is_grantable) >> :
                       r \in { x \in Range(rows) :
                                 /\ ~_should_ignore_table(ignore.tables, x.table_schema, x.table_name)
                                 /\ x.grantee \notin ignore.grantees
                                 /\ x.privilege_type \notin ignore.privs } }
         IN  SetDiffFindings("table_privileges", want, have, LeadingTables)


(***************************************************************************)
(* The YAML comparator (db_schema_yaml_validator/test_schema_yaml.py)      *)
(*                                                                         *)
(* It has no ignore configuration and reads one snapshot document:         *)
(* snap.get(key, []) is the empty list for a key the document lacks.  The  *)
(* statements of its checks are those of the JSON comparator except where  *)
(* a definition below differs.                                             *)
(***************************************************************************)

NoIgnore ==
    [tables |-> << >>, columns |-> { }, column_fields |-> { },
     grantees |-> { }, privs |-> { }]

\* snap.get(key, [])
YamlList(file) == IF file.exists THEN file.rows ELSE << >>

\* snap.get(key, []) as a list that is always there.
YamlFile(file) == [exists |-> TRUE, rows |-> YamlList(file)]

\* Lines 24-96: one iteration of the loop of check_tables_columns.
check_tables_columns_table(t, db) ==
    LET live == LiveTable(db, t.schema, t.name)
    IN  IF live.cols = << >>
        THEN << Listing("tables", "missing", { << t.schema, t.name >> },
                        { << t.schema, t.name >> }) >>
        ELSE ColumnsCheck(t, live.cols, NoIgnore)
             \o PkCheck(t, live.pk)
             \o UniqueCheck(t, live.uqs)
             \o FkCheck(t, live.fks)

\* Lines 100-114: "if not want: return 0", then as cmp_views.
check_views(file, db) == cmp_views(YamlFile(file), db)

\* Lines 116-133.
check_functions(file, db) == cmp_functions(YamlFile(file), db)

\* Lines 135-152.
check_roles(roles_file, members_file, db) ==
    cmp_roles(YamlFile(roles_file), YamlFile(members_file), db)

\* Lines 154-180: the ownerships are compared only "if want_owns".
check_sequences(seq_file, owns_file, db) ==
    cmp_sequences(YamlFile(seq_file), [exists |-> FALSE, rows |-> << >>], db)
    \o (IF WantOwns(YamlList(owns_file)) # { }
        THEN SetDiffFindings("seq_ownerships", WantOwns(YamlList(owns_file)), HaveOwns(db),
                             OwnershipTables)
        ELSE << >>)

(***************************************************************************)
(* The pytest comparator                                                   *)
(* (sql_schema_json_validator_pytest_html/tests/test_schema.py)            *)
(*                                                                         *)
(* test_table_structure runs once per snapshot file; each check is an      *)
(* assert, so the test ends at the first one that fails.                   *)
(***************************************************************************)

\* conftest.py, _ignore_table (lines 50-53).
_ignore_table(ignore, schema, table) == _should_ignore_table(ignore.tables, schema, table)

\* set(ignore["columns"].get(f"{schema}.{table}", []))
IgnoredColumnsOf(ignore, schema, table) ==
    UNION { e[2] : e \in { x \in ignore.columns : x[1] = Dotted(schema, table) } }

\* Lines 30-43: actual_cols.
PytestActualCols(obj, rows, ignore) ==
    LET names == { rows[i].column_name : i \in 1..Len(rows) }
                 \ IgnoredColumnsOf(ignore, obj.schema, obj.name)
    IN  [ cn \in names |-> ActualOf(rows, cn) ]

\* Lines 45-49: want_cols.
PytestWantCols(obj, ignore) ==
    LET cols == SelectSeq(obj.columns,
                    LAMBDA c : c.name \notin IgnoredColumnsOf(ignore, obj.schema, obj.name))
        names == { cols[i].name : i \in 1..Len(cols) }
    IN  [ cn \in names |->
            LET meta == cols[LastIndex(cols, LAMBDA c : c.name = cn)].meta
            IN  [ k \in (DOMAIN meta) \ ignore.column_fields |-> meta[k] ] ]

\* Lines 51-52: DeepDiff(want_cols, actual_cols) is not empty.
PytestColumnsCheck(obj, rows, ignore) ==
    LET t == { << obj.schema, obj.name >> }
        want == PytestWantCols(obj, ignore)
        actual == PytestActualCols(obj, rows, ignore)
        differ ==
            \/ DOMAIN want # DOMAIN actual
            \/ \E cn \in DOMAIN want :
                  \/ DOMAIN want[cn] # DOMAIN actual[cn]
                  \/ \E k \in DOMAIN want[cn] : ValuesDifferStrict(want[cn][k], actual[cn][k])
    IN  IF differ THEN << Finding("columns", "changed", t, t, "columns", want, actual) >>
        ELSE << >>

\* Lines 54-58.
PytestPkCheck(obj, pk_rows) ==
    LET t == { << obj.schema, obj.name >> }
        want_pk == IF obj.primary_key = << >> THEN << >> ELSE obj.primary_key[1].columns
        have_pk == IF pk_rows = << >> THEN << >> ELSE pk_rows[1].colnames
    IN  IF want_pk # have_pk
        THEN << Finding("pk", "changed", t, t, "columns", want_pk, have_pk) >>
        ELSE << >>

\* Lines 65-76: each group keeps the referenced table of its first row and
\* is sorted by ordinal position.
PytestHaveFks(fk_rows) ==
    LET names == FkNames(fk_rows)
    IN  [ i \in 1..Len(names) |->
            LET rows == FkGroup(fk_rows, names[i])
                srt == SortedByOrdinal(rows, << >>)
            IN  << names[i], rows[1].foreign_table_schema, rows[1].foreign_table_name,
                   [ j \in 1..Len(srt) |-> << srt[j].column_name, srt[j].foreign_column_name >> ] >> ]

\* Lines 65-82.
PytestFkCheck(obj, fk_rows) ==
    LET t == { << obj.schema, obj.name >> }
    IN  IF BagOfSeq(WantFks(obj)) # BagOfSeq(PytestHaveFks(fk_rows))
        THEN << Finding("fk", "changed", t, t, "foreign_keys",
                        WantFks(obj), PytestHaveFks(fk_rows)) >>
        ELSE << >>

\* The first element of a sequence, as a sequence: the assertion that fails
\* ends the test.
FirstOnly(out) == IF out = << >> THEN << >> ELSE << Head(out) >>

\* Lines 19-82: test_table_structure for one snapshot file.
test_table_structure(obj, db, ignore) ==
    LET live == LiveTable(db, obj.schema, obj.name)
    IN  IF _ignore_table(ignore, obj.schema, obj.name) THEN << >>
        ELSE IF live.cols = << >>
        THEN << Listing("tables", "missing", { << obj.schema, obj.name >> },
                        { << obj.schema, obj.name >> }) >>
        ELSE FirstOnly(PytestColumnsCheck(obj, live.cols, ignore)
                       \o PytestPkCheck(obj, live.pk)
                       \o UniqueCheck(obj, live.uqs)
                       \o PytestFkCheck(obj, live.fks))


\* "assert want == have": one finding that names the entries on one side only.
DifferFinding(cat, want, have, TablesOf(_)) ==
    IF want # have
    THEN << Listing(cat, "differ", TablesOf((want \ have) \cup (have \ want)),
                    (want \ have) \cup (have \ want)) >>
    ELSE << >>

\* Lines 86-94.
test_views(file, db) ==
    IF ~file.exists THEN << >>
    ELSE LET out == cmp_views(file, db)
             missing == UNION { out[i].keys : i \in { j \in 1..Len(out) : out[j].kind = "missing" } }
             diffs == UNION { out[i].keys : i \in { j \in 1..Len(out) : out[j].kind = "changed" } }
         IN  IF missing # { } THEN << Listing("views", "missing", { }, missing) >>
             ELSE IF diffs # { } THEN << Listing("views", "changed", { }, diffs) >>
             ELSE << >>

\* Lines 96-105.
test_functions(file, db) ==
    IF ~file.exists THEN << >>
    ELSE LET out == cmp_functions(file, db)
             missing == UNION { out[i].keys : i \in { j \in 1..Len(out) : out[j].kind = "missing" } }
             changed == UNION { out[i].keys : i \in { j \in 1..Len(out) : out[j].kind = "changed" } }
         IN  IF missing # { } THEN << Listing("functions", "missing", { }, missing) >>
             ELSE IF changed # { } THEN << Listing("functions", "changed", { }, changed) >>
             ELSE << >>

\* Lines 107-115: the memberships snapshot is loaded whenever the roles
\* snapshot is there; without it the test ends in a KeyError.
test_roles_and_memberships(roles_file, members_file, db) ==
    IF ~roles_file.exists THEN << >>
    ELSE IF ~members_file.exists
    THEN << Listing("role_memberships", "error", { }, { }) >>
    ELSE LET want_roles == { roles_file.rows[i].name : i \in 1..Len(roles_file.rows) }
             have_roles == { db.roles[i].rolname : i \in 1..Len(db.roles) }
             want_rm == { << members_file.rows[i].role, members_file.rows[i].member >> :
                              i \in 1..Len(members_file.rows) }
             have_rm == { << db.role_members[i].role, db.role_members[i].member >> :
                              i \in 1..Len(db.role_members) }
         IN  FirstOnly((IF want_roles \ have_roles # { }
                        THEN << Listing("roles", "missing", { }, want_roles \ have_roles) >>
                        ELSE << >>)
                       \o DifferFinding("role_memberships", want_rm, have_rm, NoTables))

\* Lines 117-123.
test_sequences(file, db) ==
    IF ~file.exists THEN << >>
    ELSE LET want == { << file.rows[i].schema, file.rows[i].name >> : i \in 1..Len(file.rows) }
             rows == SelectSeq(db.sequences,
                        LAMBDA r : InSchemas(r.sequence_schema, { k[1] : k \in want }, { }))
             have == { << rows[i].sequence_schema, rows[i].sequence_name >> : i \in 1..Len(rows) }
         IN  IF want \ have # { }
             THEN << Listing("sequences", "missing", { }, want \ have) >>
             ELSE << >>

\* Lines 125-134.
test_sequence_ownerships(file, db) ==
    IF ~file.exists THEN << >>
    ELSE DifferFinding("seq_ownerships", WantOwns(file.rows), HaveOwns(db), OwnershipTables)

\* The finding of a test that asserts the equality a cmp_* function checks,
\* with the schemas of the query taken from the filtered snapshot entries.
AssertEqual(cat, out) ==
    IF out = << >> THEN << >>
    ELSE << Listing(cat, "differ", UNION { out[i].tables : i \in 1..Len(out) },
                    UNION { out[i].keys : i \in 1..Len(out) }) >>

\* The schemas of the snapshot entries (schema, table, ...) that are not ignored.
WantSchemas(rows, ignore, SchemaOf(_), TableOf(_)) ==
    { SchemaOf(x) : x \in { y \in Range(rows) : ~_ignore_table(ignore, SchemaOf(y), TableOf(y)) } }

\* Lines 136-143.
test_indexes(file, db, ignore) ==
    IF ~file.exists THEN << >>
    ELSE AssertEqual("indexes",
             cmp_indexes(file, db, ignore,
                 WantSchemas(file.rows, ignore, LAMBDA x : x.schema, LAMBDA x : x.table), { }))

\* Lines 145-159.
test_triggers(file, db, ignore) ==
    IF ~file.exists THEN << >>
    ELSE AssertEqual("triggers",
             cmp_triggers(file, db, ignore,
                 WantSchemas(file.rows, ignore, LAMBDA x : x.table_schema, LAMBDA x : x.table), { }))

\* Lines 161-167.
test_table_owners(file, db, ignore) ==
    IF ~file.exists THEN << >>
    ELSE AssertEqual("table_owners",
             cmp_table_owners(file, db, ignore,
                 WantSchemas(file.rows, ignore, LAMBDA x : x.schema, LAMBDA x : x.table), { }))

\* Lines 169-182.
test_table_privileges(file, db, ignore) ==
    IF ~file.exists THEN << >>
    ELSE LET kept == SelectSeq(file.rows,
                        LAMBDA g : g.grantee \notin ignore.grantees /\ g.privilege \notin ignore.privs)
         IN  AssertEqual("table_privileges",
                 cmp_table_privileges(file, db, ignore,
                     WantSchemas(kept, ignore, LAMBDA x : x.schema, LAMBDA x : x.table), { }))


(***************************************************************************)
(* The JSON exporter (export_schema_json.py)                               *)
(***************************************************************************)

\* norm_sql of the exporter (lines 5-7): None becomes "".
export_norm_sql(v) == IF v.t = "none" THEN PyStr(<< >>) ELSE PyStr(FoldWs(v.s))

\* Lines 42-56: one FK record per constraint name, its rows sorted by
\* ordinal position, the referenced table taken from the first sorted row.
ExportedFks(fk_rows) ==
    LET names == FkNames(fk_rows)
    IN  [ i \in 1..Len(names) |->
            LET rows == SortedByOrdinal(FkGroup(fk_rows, names[i]), << >>)
            IN  [name |-> names[i],
                 ref_schema |-> rows[1].foreign_table_schema,
                 ref_table |-> rows[1].foreign_table_name,
                 columns |-> [ j \in 1..Len(rows) |->
                                 [local |-> rows[j].column_name,
                                  remote |-> rows[j].foreign_column_name] ]] ]

\* Lines 17-56: the entry export_table writes for one table.
ExportedTable(schema, table, live) ==
    [schema |-> schema, name |-> table,
     columns |-> [ i \in 1..Len(live.cols) |->
                     [name |-> live.cols[i].column_name, meta |-> ActualMeta(live.cols[i])] ],
     primary_key |-> IF live.pk = << >> THEN << >>
                     ELSE << [name |-> live.pk[1].constraint_name,
                              columns |-> live.pk[1].colnames] >>,
     uniques |-> [ i \in 1..Len(live.uqs) |->
                     [name |-> live.uqs[i].constraint_name, columns |-> live.uqs[i].colnames] ],
     foreign_keys |-> ExportedFks(live.fks)]

\* Lexicographic order on tuples of strings of the same length.
RECURSIVE TupleLess(_, _)
TupleLess(a, b) ==
    IF a = << >> THEN FALSE
    ELSE IF Head(a) = Head(b) THEN TupleLess(Tail(a), Tail(b))
    ELSE StrLess(Head(a), Head(b))

\* One step of an insertion sort of trigger records by (table_schema, table, name).
RECURSIVE InsertTrigger(_, _)
InsertTrigger(sorted, t) ==
    IF sorted = << >> THEN << t >>
    ELSE IF TupleLess(<< t.table_schema, t.table, t.name >>,
                      << Head(sorted).table_schema, Head(sorted).table, Head(sorted).name >>)
         THEN << t >> \o sorted
         ELSE << Head(sorted) >> \o InsertTrigger(Tail(sorted), t)

RECURSIVE SortedTriggers(_, _)
SortedTriggers(ts, acc) ==
    IF ts = << >> THEN acc
    ELSE SortedTriggers(Tail(ts), InsertTrigger(acc, Head(ts)))

\* Lines 143-162: one record per (table_schema, table, trigger_name).
ExportedTriggers(rows) ==
    LET key(r) == << r.table_schema, r.table_name, r.trigger_name >>
        keys == FirstSeen([ i \in 1..Len(rows) |-> key(rows[i]) ], << >>)
    IN  SortedTriggers(
            [ i \in 1..Len(keys) |->
                [table_schema |-> keys[i][1], table |-> keys[i][2], name |-> keys[i][3],
                 timing |-> rows[LastIndex(rows, LAMBDA r : key(r) = keys[i])].action_timing,
                 events |-> SortedStrs({ rows[j].event_manipulation :
                                j \in { m \in 1..Len(rows) : key(rows[m]) = keys[i] } })] ],
            << >>)

\* Lines 65-180: the global files export_globals writes, in the order it
\* writes them.
GlobalFiles ==
    << "views", "functions", "roles", "role_memberships", "sequences",
       "sequence_ownerships", "indexes", "triggers", "table_owners", "table_privileges" >>

\* The content export_globals writes to one global file.
ExportedGlobal(file, db, include_schemas, exclude_schemas) ==
    LET inc(schema) == InSchemas(schema, include_schemas, exclude_schemas)
    IN  CASE file = "views" ->
               LET rows == SelectSeq(db.views, LAMBDA r : inc(r.table_schema))
               IN  [ i \in 1..Len(rows) |->
                       [schema |-> rows[i].table_schema, name |-> rows[i].table_name,
                        definition_norm |-> export_norm_sql(rows[i].definition)] ]
          [] file = "functions" ->
               LET rows == SelectSeq(db.functions, LAMBDA r : inc(r.schema))
               IN  [ i \in 1..Len(rows) |->
                       [schema |-> rows[i].schema, name |-> rows[i].name,
                        args |-> OrEmpty(rows[i].args).s,
                        definition_hash |-> Sha256(export_norm_sql(rows[i].definition))] ]
          [] file = "roles" ->
               [ i \in 1..Len(db.roles) |-> [name |-> db.roles[i].rolname] ]
          [] file = "role_memberships" ->
               [ i \in 1..Len(db.role_members) |->
                   [role |-> db.role_members[i].role, member |-> db.role_members[i].member] ]
          [] file = "sequences" ->
               LET rows == SelectSeq(db.sequences, LAMBDA r : inc(r.sequence_schema))
               IN  [ i \in 1..Len(rows) |->
                       [schema |-> rows[i].sequence_schema, name |-> rows[i].sequence_name] ]
          [] file = "sequence_ownerships" ->
               LET rows == SelectSeq(db.seq_owned, LAMBDA r : r.schema_name.t # "none")
               IN  [ i \in 1..Len(rows) |->
                       [schema |-> rows[i].schema_name.s, sequence |-> rows[i].sequence_name,
                        table_schema |-> OrEmpty(rows[i].table_schema).s,
                        table |-> OrEmpty(rows[i].table_name).s,
                        column |-> OrEmpty(rows[i].column_name).s] ]
          [] file = "indexes" ->
               LET rows == SelectSeq(db.indexes, LAMBDA r : inc(r.schemaname))
               IN  [ i \in 1..Len(rows) |->
                       [schema |-> rows[i].schemaname, table |-> rows[i].tablename,
                        name |-> rows[i].indexname, definition |-> rows[i].indexdef] ]
          [] file = "triggers" ->
               ExportedTriggers(SelectSeq(db.triggers, LAMBDA r : inc(r.table_schema)))
          [] file = "table_owners" ->
               LET rows == SelectSeq(db.table_owners, LAMBDA r : inc(r.schema))
               IN  [ i \in 1..Len(rows) |->
                       [schema |-> rows[i].schema, table |-> rows[i].table,
                        owner |-> rows[i].owner] ]
          [] file = "table_privileges" ->
               LET rows == SelectSeq(db.table_privileges, LAMBDA r : inc(r.table_schema))
               IN  [ i \in 1..Len(rows) |->
                       [schema |-> rows[i].table_schema, table |-> rows[i].table_name,
                        grantee |-> rows[i].grantee, privilege |-> rows[i].privilege_type,
                        is_grantable |-> Lower(rows[i].is_grantable)] ]


(***************************************************************************)
(* Databases, snapshots and ignore configurations of the comparison runs   *)
(*                                                                         *)
(* Two tables, p.u and a.l, and a few objects of every global category.    *)
(* A snapshot is what the exporter wrote for some database state, or a     *)
(* hand-edited variant of it; the live database is any of the states.      *)
(***************************************************************************)

P == << "p" >>
A == << "a" >>
U == << "u" >>
L == << "l" >>
ID == << "i", "d" >>
EM == << "e", "m" >>
XC == << "x" >>
NO == << "N", "O" >>
YES == << "Y", "E", "S" >>
IncludeSchemas == { P, A }

\* A row of SQL_LIST_COLUMNS.
ColumnRow(name, nullable, cmax, nscale, default) ==
    [column_name |-> name, is_nullable |-> PyStr(nullable),
     data_type |-> PyStr(<< "i", "n", "t" >>), udt_name |-> PyStr(<< "i", "n", "t" >>),
     character_maximum_length |-> cmax, numeric_precision |-> PyNone,
     numeric_scale |-> nscale, datetime_precision |-> PyNone,
     column_default |-> default, is_identity |-> PyStr(NO)]

IdRow == ColumnRow(ID, NO, PyNone, PyInt(<< "0" >>), PyNone)
EmRow == ColumnRow(EM, NO, PyInt(<< "1", "0" >>), PyNone, PyStr(<< "x" >>))
XcRow == ColumnRow(XC, YES, PyNone, PyNone, PyNone)

\* A row of SQL_FKS.
FkRow(col, rtable, rcol, ord) ==
    [constraint_name |-> << "f", "k" >>, column_name |-> col,
     foreign_table_schema |-> A, foreign_table_name |-> rtable,
     foreign_column_name |-> rcol, ordinal_position |-> ord]

\* A foreign key (em, id) -> a.l (id, em): its ordinal order is alphabetical.
AlphaFks == << FkRow(EM, L, ID, 1), FkRow(ID, L, EM, 2) >>
\* A foreign key (id, em) -> a.l (em, id): its ordinal order is not.
NonAlphaFks == << FkRow(ID, L, EM, 1), FkRow(EM, L, ID, 2) >>

TableU ==
    [cols |-> << IdRow, EmRow >>,
     pk |-> << [constraint_name |-> << "p", "k" >>, colnames |-> << ID, EM >>] >>,
     uqs |-> << [constraint_name |-> << "u", "q" >>, colnames |-> << EM >>] >>,
     fks |-> AlphaFks]

TableL == [cols |-> << IdRow >>, pk |-> << >>, uqs |-> << >>, fks |-> << >>]

\* The states of p.u in the live database.
LiveU ==
    { TableU, NoTable,
      [TableU EXCEPT !.cols[2].is_nullable = PyStr(YES)],
      [TableU EXCEPT !.cols[1].numeric_scale = PyNone],
      [TableU EXCEPT !.cols[2].column_default = PyNone],
      [TableU EXCEPT !.cols = << IdRow, EmRow, XcRow >>],
      [TableU EXCEPT !.cols = << IdRow >>],
      [TableU EXCEPT !.pk[1].colnames = << EM, ID >>],
      [TableU EXCEPT !.pk = << >>],
      [TableU EXCEPT !.uqs[1].colnames = << ID >>],
      [TableU EXCEPT !.fks = NonAlphaFks],
      [TableU EXCEPT !.fks = << AlphaFks[2], AlphaFks[1] >>],
      [TableU EXCEPT !.fks = << FkRow(EM, U, ID, 1), FkRow(ID, U, EM, 2) >>],
      [TableU EXCEPT !.cols[2].is_nullable = PyStr(YES),
                     !.pk[1].colnames = << EM, ID >>,
                     !.uqs[1].colnames = << ID >>,
                     !.fks = << FkRow(EM, U, ID, 1), FkRow(ID, U, EM, 2) >>] }

\* The snapshots of p.u: none, an export of one of four states, or the
\* export of TableU with the "default" field of column em deleted.
SnapU ==
    { << >> }
    \cup { << ExportedTable(P, U, t) >> :
             t \in { TableU,
                     [TableU EXCEPT !.fks = NonAlphaFks],
                     [TableU EXCEPT !.cols[1].numeric_scale = PyNone],
                     [TableU EXCEPT !.pk = << >>] } }
    \cup { << [ExportedTable(P, U, TableU) EXCEPT
                 !.columns[2].meta = [ k \in Fields \ { "default" } |->
                                         ActualMeta(EmRow)[k] ]] >> }

LiveL ==
    { TableL, NoTable,
      [TableL EXCEPT !.cols[1].is_nullable = PyStr(YES)],
      [TableL EXCEPT !.cols = << IdRow, XcRow >>],
      [TableL EXCEPT !.pk = << [constraint_name |-> << "p", "k" >>, colnames |-> << ID >>] >>] }

SnapL == { << >>, << ExportedTable(A, L, TableL) >> }


\* Rows of SQL_VIEWS, SQL_FUNCTIONS, SQL_ROLES, SQL_ROLE_MEMBERS, SQL_SEQUENCES,
\* SQL_SEQUENCE_OWNED_BY, SQL_INDEXES, SQL_TRIGGERS, SQL_TABLE_OWNERS and
\* SQL_TABLE_PRIVILEGES.
ViewRow(schema, name, def) ==
    [table_schema |-> schema, table_name |-> name, definition |-> PyStr(def)]

FunctionRow(schema, name, args, def) ==
    [schema |-> schema, name |-> name, args |-> args, definition |-> PyStr(def)]

RoleRow(name) == [rolname |-> name]

MemberRow(role, member) == [role |-> role, member |-> member]

SequenceRow(schema, name) == [sequence_schema |-> schema, sequence_name |-> name]

OwnedRow(schema, name, tschema, table, col) ==
    [schema_name |-> schema, sequence_name |-> name, table_schema |-> tschema,
     table_name |-> table, column_name |-> col]

IndexRow(schema, table, name, def) ==
    [schemaname |-> schema, tablename |-> table, indexname |-> name, indexdef |-> def]

TriggerRow(schema, table, name, timing, event) ==
    [table_schema |-> schema, table_name |-> table, trigger_name |-> name,
     action_timing |-> timing, event_manipulation |-> event]

OwnerRow(schema, table, owner) == [schema |-> schema, table |-> table, owner |-> owner]

PrivilegeRow(schema, table, grantee, priv, grantable) ==
    [table_schema |-> schema, table_name |-> table, grantee |-> grantee,
     privilege_type |-> priv, is_grantable |-> grantable]

\* The states of one global category in the live database.
LiveGlobal(file) ==
    CASE file = "views" ->
           { << >>,
             << ViewRow(P, << "v" >>, << "s", " ", "x" >>) >>,
             << ViewRow(P, << "v" >>, << "s", "\n", " ", "x", " " >>) >>,
             << ViewRow(P, << "v" >>, << "s", " ", "y" >>) >>,
             << ViewRow(P, << "v" >>, << "s", " ", "x" >>),
                ViewRow(P, << "w" >>, << "s", " ", "x" >>) >>,
             << ViewRow(P, << "w" >>, << "s", " ", "x" >>),
                ViewRow(A, << "v" >>, << "s", " ", "x" >>) >> }
      [] file = "functions" ->
           { << >>,
             << FunctionRow(P, << "f" >>, PyNone, << "b", " ", "e" >>) >>,
             << FunctionRow(P, << "f" >>, PyStr(<< >>), << "b", "\t", " ", "e", "\n" >>) >>,
             << FunctionRow(P, << "f" >>, PyNone, << "b", " ", "d" >>) >>,
             << FunctionRow(P, << "f" >>, PyNone, << "b", " ", "e" >>),
                FunctionRow(P, << "g" >>, PyNone, << "b", " ", "e" >>) >>,
             << FunctionRow(P, << "g" >>, PyNone, << "b", " ", "e" >>),
                FunctionRow(A, << "f" >>, PyNone, << "b", " ", "e" >>) >> }
      [] file = "roles" ->
           { << >>, << RoleRow(<< "r" >>) >>,
             << RoleRow(<< "r" >>), RoleRow(<< "s" >>) >>,
             << RoleRow(<< "s" >>), RoleRow(<< "t" >>) >> }
      [] file = "role_memberships" ->
           { << >>, << MemberRow(<< "r" >>, << "s" >>) >>,
             << MemberRow(<< "r" >>, << "s" >>), MemberRow(<< "s" >>, << "t" >>) >>,
             << MemberRow(<< "s" >>, << "t" >>), MemberRow(<< "t" >>, << "r" >>) >> }
      [] file = "sequences" ->
           { << >>, << SequenceRow(P, << "q" >>) >>,
             << SequenceRow(P, << "q" >>), SequenceRow(P, << "r" >>) >>,
             << SequenceRow(P, << "r" >>), SequenceRow(A, << "q" >>) >> }
      [] file = "sequence_ownerships" ->
           { << >>,
             << OwnedRow(PyStr(P), << "q" >>, PyStr(P), PyStr(U), PyStr(ID)) >>,
             << OwnedRow(PyStr(P), << "q" >>, PyStr(P), PyStr(U), PyStr(ID)),
                OwnedRow(PyStr(A), << "q" >>, PyStr(A), PyStr(L), PyStr(ID)) >>,
             << OwnedRow(PyStr(A), << "q" >>, PyStr(A), PyStr(L), PyStr(ID)) >>,
             << OwnedRow(PyStr(P), << "q" >>, PyStr(P), PyStr(U), PyStr(ID)),
                OwnedRow(PyStr(P), << "r" >>, PyNone, PyNone, PyNone) >> }
      [] file = "indexes" ->
           { << >>,
             << IndexRow(P, U, << "i" >>, << "c" >>) >>,
             << IndexRow(P, U, << "i" >>, << "d" >>) >>,
             << IndexRow(P, U, << "i" >>, << "c" >>), IndexRow(A, L, << "j" >>, << "c" >>) >>,
             << IndexRow(A, L, << "j" >>, << "c" >>) >> }
      [] file = "triggers" ->
           { << >>,
             << TriggerRow(P, U, << "t" >>, PyStr(<< "b" >>), << "i" >>),
                TriggerRow(P, U, << "t" >>, PyStr(<< "b" >>), << "u" >>) >>,
             << TriggerRow(P, U, << "t" >>, PyStr(<< "b" >>), << "u" >>),
                TriggerRow(P, U, << "t" >>, PyStr(<< "b" >>), << "i" >>) >>,
             << TriggerRow(P, U, << "t" >>, PyStr(<< "b" >>), << "i" >>) >>,
             << TriggerRow(P, U, << "t" >>, PyStr(<< "b" >>), << "i" >>),
                TriggerRow(P, U, << "t" >>, PyStr(<< "b" >>), << "u" >>),
                TriggerRow(A, L, << "t" >>, PyStr(<< "b" >>), << "i" >>) >>,
             << TriggerRow(A, L, << "t" >>, PyStr(<< "b" >>), << "i" >>) >> }
      [] file = "table_owners" ->
           { << >>,
             << OwnerRow(P, U, << "o" >>), OwnerRow(A, L, << "o" >>) >>,
             << OwnerRow(P, U, << "o" >>) >>,
             << OwnerRow(P, U, << "n" >>), OwnerRow(A, L, << "o" >>) >>,
             << OwnerRow(P, U, << "o" >>), OwnerRow(A, L, << "n" >>) >> }
      [] file = "table_privileges" ->
           { << >>,
             << PrivilegeRow(P, U, << "g" >>, << "s" >>, NO) >>,
             << PrivilegeRow(P, U, << "g" >>, << "s" >>, YES) >>,
             << PrivilegeRow(P, U, << "g" >>, << "s" >>, NO),
                PrivilegeRow(A, L, << "g" >>, << "s" >>, NO) >>,
             << PrivilegeRow(P, U, << "g" >>, << "s" >>, NO),
                PrivilegeRow(P, U, << "h" >>, << "s" >>, NO) >>,
             << PrivilegeRow(P, U, << "g" >>, << "s" >>, NO),
                PrivilegeRow(P, U, << "g" >>, << "t" >>, YES) >> }


\* A snapshot file that json.load reads, and one that is not there.
File(rows) == [exists |-> TRUE, rows |-> rows]
NoFile == [exists |-> FALSE, rows |-> << >>]

\* The live database with the rows of one global category only.
DbOf(file, rows) ==
    [views |-> IF file = "views" THEN rows ELSE << >>,
     functions |-> IF file = "functions" THEN rows ELSE << >>,
     roles |-> IF file = "roles" THEN rows ELSE << >>,
     role_members |-> IF file = "role_memberships" THEN rows ELSE << >>,
     sequences |-> IF file = "sequences" THEN rows ELSE << >>,
     seq_owned |-> IF file = "sequence_ownerships" THEN rows ELSE << >>,
     indexes |-> IF file = "indexes" THEN rows ELSE << >>,
     triggers |-> IF file = "triggers" THEN rows ELSE << >>,
     table_owners |-> IF file = "table_owners" THEN rows ELSE << >>,
     table_privileges |-> IF file = "table_privileges" THEN rows ELSE << >>]

\* The snapshots of one global category: none, or the export of a state.
SnapGlobal(file) ==
    { NoFile }
    \cup { File(ExportedGlobal(file, DbOf(file, rows), IncludeSchemas, { })) :
             rows \in LiveGlobal(file) }

\* The parts a snapshot and a database are made of.
Dims == { "tu", "tl" } \cup Range(GlobalFiles)

\* The << snapshot, live >> pairs of one part.
Options(d) ==
    CASE d = "tu" -> SnapU \X LiveU
      [] d = "tl" -> SnapL \X LiveL
      [] OTHER -> SnapGlobal(d) \X LiveGlobal(d)

\* The state of each part in the database the snapshot was exported from.
BaseLive(d) ==
    CASE d = "tu" -> TableU
      [] d = "tl" -> TableL
      [] d = "views" -> << ViewRow(P, << "v" >>, << "s", " ", "x" >>) >>
      [] d = "functions" -> << FunctionRow(P, << "f" >>, PyNone, << "b", " ", "e" >>) >>
      [] d = "roles" -> << RoleRow(<< "r" >>), RoleRow(<< "s" >>) >>
      [] d = "role_memberships" -> << MemberRow(<< "r" >>, << "s" >>) >>
      [] d = "sequences" -> << SequenceRow(P, << "q" >>) >>
      [] d = "sequence_ownerships" ->
           << OwnedRow(PyStr(P), << "q" >>, PyStr(P), PyStr(U), PyStr(ID)) >>
      [] d = "indexes" -> << IndexRow(P, U, << "i" >>, << "c" >>) >>
      [] d = "triggers" ->
           << TriggerRow(P, U, << "t" >>, PyStr(<< "b" >>), << "i" >>),
              TriggerRow(P, U, << "t" >>, PyStr(<< "b" >>), << "u" >>) >>
      [] d = "table_owners" -> << OwnerRow(P, U, << "o" >>), OwnerRow(A, L, << "o" >>) >>
      [] d = "table_privileges" -> << PrivilegeRow(P, U, << "g" >>, << "s" >>, NO) >>

\* The export of a part's base state.
BaseSnap(d) ==
    CASE d = "tu" -> << ExportedTable(P, U, TableU) >>
      [] d = "tl" -> << ExportedTable(A, L, TableL) >>
      [] OTHER -> File(ExportedGlobal(d, DbOf(d, BaseLive(d)), IncludeSchemas, { }))

\* A state of each part that has drifted from its base state.
DriftLive(d) ==
    CASE d = "tu" -> [TableU EXCEPT !.cols[2].is_nullable = PyStr(YES)]
      [] d = "tl" -> [TableL EXCEPT !.cols = << IdRow, XcRow >>]
      [] d = "views" -> << ViewRow(P, << "v" >>, << "s", " ", "y" >>) >>
      [] d = "functions" -> << >>
      [] d = "roles" -> << RoleRow(<< "s" >>), RoleRow(<< "t" >>) >>
      [] d = "role_memberships" -> << >>
      [] d = "sequences" -> << >>
      [] d = "sequence_ownerships" ->
           << OwnedRow(PyStr(P), << "q" >>, PyStr(P), PyStr(U), PyStr(ID)),
              OwnedRow(PyStr(A), << "q" >>, PyStr(A), PyStr(L), PyStr(ID)) >>
      [] d = "indexes" -> << IndexRow(P, U, << "i" >>, << "d" >>) >>
      [] d = "triggers" -> << TriggerRow(P, U, << "t" >>, PyStr(<< "b" >>), << "i" >>) >>
      [] d = "table_owners" -> << OwnerRow(P, U, << "n" >>), OwnerRow(A, L, << "o" >>) >>
      [] d = "table_privileges" -> << PrivilegeRow(P, U, << "g" >>, << "s" >>, YES) >>

\* The database and the snapshot made of one << snapshot, live >> pair per
\* part; a snapshot without a tables directory has no table file.
MakeDb(w) ==
    [tables |-> (<< P, U >> :> w["tu"][2]) @@ (<< A, L >> :> w["tl"][2]),
     views |-> w["views"][2], functions |-> w["functions"][2], roles |-> w["roles"][2],
     role_members |-> w["role_memberships"][2], sequences |-> w["sequences"][2],
     seq_owned |-> w["sequence_ownerships"][2], indexes |-> w["indexes"][2],
     triggers |-> w["triggers"][2], table_owners |-> w["table_owners"][2],
     table_privileges |-> w["table_privileges"][2]]

MakeSnap(w, reversed, tables_dir) ==
    [tables_dir |-> tables_dir,
     tables |-> IF ~tables_dir THEN << >>
                ELSE IF reversed THEN w["tl"][1] \o w["tu"][1]
                ELSE w["tu"][1] \o w["tl"][1],
     views |-> w["views"][1], functions |-> w["functions"][1], roles |-> w["roles"][1],
     role_memberships |-> w["role_memberships"][1], sequences |-> w["sequences"][1],
     sequence_ownerships |-> w["sequence_ownerships"][1], indexes |-> w["indexes"][1],
     triggers |-> w["triggers"][1], table_owners |-> w["table_owners"][1],
     table_privileges |-> w["table_privileges"][1]]

\* The ignore configurations of the runs.
FullIgnore ==
    [tables |-> << << "a", ".", "*" >> >>,
     columns |-> { << Dotted(P, U), { XC } >> },
     column_fields |-> { "default" },
     grantees |-> { << "h" >> },
     privs |-> { << "t" >> }]

\* An ignore configuration that lists one column of one table only.
ColumnIgnore == [NoIgnore EXCEPT !.columns = { << Dotted(P, U), { XC } >> }]

IgnoresOf(v) == IF v = "yaml" THEN { NoIgnore } ELSE { NoIgnore, FullIgnore, ColumnIgnore }

Variants == { "json", "yaml", "pytest" }


(***************************************************************************)
(* State                                                                   *)
(***************************************************************************)

VARIABLES
    cx,      \* canonicalize: the input tree
    cy,      \* canonicalize: the input with lists inside it reordered
    ccfg,    \* canonicalize: [ign, nrm], the ignore and normalize key sets
    cout,    \* canonicalize(cx)
    cyout,   \* canonicalize(cy)
    cout2,   \* canonicalize(canonicalize(cx))
    cpc,     \* position of the canonicalization test
    variant,      \* comparison run: "json", "yaml" or "pytest"
    snap,         \* the expected snapshot on disk
    db,           \* the live database
    ignore,       \* the ignore configuration
    pc,           \* the check that runs next
    ti,           \* index of the next table of the snapshot
    trc,          \* rc of cmp_tables / check_tables_columns while its loop runs
    rc,           \* rc of main; for pytest, whether a test has failed
    findings,     \* the [FAIL] lines printed so far, in order
    exit_status,  \* the process exit status, -1 while the run goes on
    fatal,        \* whether the run ended in an exception
    raised,       \* the number of queries that have raised
    ran,          \* the checks that have been executed
    evariant,  \* export run: "json" or "yaml"
    edb,       \* the database that is exported
    disk,      \* the snapshot directory (or document) on disk
    emem,      \* export_snapshot: the snapshot it is building
    eret,      \* export_snapshot: the snapshot it has returned
    etargets,  \* the tables SQL_LIST_TABLES returned
    epc,       \* position of the export run
    ei,        \* index of the next table, global file or section
    ewritten,  \* the files this run has written: table files, global files, document
    eexit,     \* the process exit status, -1 while the run goes on
    efailed,   \* whether a query of this run has raised
    ns,        \* text normalization: the value handed to the normalizers
    nout,      \* what the normalizer that ran has returned
    npc,       \* "idle", "start", or the normalizer that ran
    diff,      \* the sections the diff report shows as differing, once it has run
    tsnap,     \* two runs in one process: the snapshot directory
    tdb,       \* the live database
    tcfg,      \* the ignore configuration of the config file of each run
    ignore_globals, \* the module globals ignore_tables, ignore_columns, ... of test_schema_json
    tpc,       \* the position of each run: [at, i]
    tfindings, \* the findings each run has printed
    texit,     \* the exit status of each run, -1 while it goes on
    connection, \* SchemaExtractor: self.connection, 0 for None, else the index of a connection
    conns,     \* the connections psycopg2.connect has returned: "open" or "closed"
    xpc,       \* the position in extract_all_schemas
    xi,        \* the index of the object kind that is extracted
    xfiles,    \* the files save_to_json has written
    xexc,      \* whether an exception is being raised out of the try block
    xcalls,    \* the number of calls of extract_all_schemas so far
    queries,   \* the queries issued: the call, the kind, and the state of the connection used
    afunc,     \* AtlasAPI: what the wrapped function does on each call
    attempt,   \* AtlasAPI: the loop variable of safe_api_call
    apc,       \* AtlasAPI: position in safe_api_call
    acalls,    \* AtlasAPI: calls of the wrapped function so far
    aslept,    \* AtlasAPI: seconds spent in time.sleep
    aret,      \* AtlasAPI: the value safe_api_call returned
    uenv,      \* runner: the --config argument and how each child process ends
    upc,       \* runner: position in main
    ustarted,  \* runner: the child processes started, in order
    uwarned,   \* runner: whether the diff warning was printed
    uexit,     \* runner: its exit status, -1 while it runs
    statements, \* FileSplit: the non-empty statements of the input DDL
    fpc,       \* FileSplit: position in separate_ddl_statements
    fi,        \* FileSplit: index of the current loop
    create_tables, \* FileSplit: the dict name to statement, in insertion order
    alter_statements, \* FileSplit: the statements that create no table
    alters_for_new, \* FileSplit: pairs of statement and created table altered
    alters_for_existing, \* FileSplit: the second list returned
    new_table_ddl, \* FileSplit: the first list returned
    target,    \* dbunit: the schema and table export_sandbox exports
    bpc,       \* dbunit: export, test or done
    datasets,  \* dbunit: the files of the datasets directory with their row tag
    compared   \* dbunit: file and table name of each comparison started

cvars == << cx, cy, ccfg, cout, cyout, cout2, cpc >>

rvars ==
    << variant, snap, db, ignore, pc, ti, trc, rc, findings, exit_status, fatal, raised, ran >>

evars == << evariant, edb, disk, emem, eret, etargets, epc, ei, ewritten, eexit, efailed >>

nvars == << ns, nout, npc >>

dvars == << diff >>

tvars == << tsnap, tdb, tcfg, ignore_globals, tpc, tfindings, texit >>

xvars == << connection, conns, xpc, xi, xfiles, xexc, xcalls, queries >>

avars == << afunc, attempt, apc, acalls, aslept, aret >>

uvars == << uenv, upc, ustarted, uwarned, uexit >>

fvars == << statements, fpc, fi, create_tables, alter_statements, alters_for_new, alters_for_existing, new_table_ddl >>

bvars == << target, bpc, datasets, compared >>

vars == << cvars, rvars, evars, nvars, dvars, tvars, xvars, avars, uvars, fvars, bvars >>

\* The diff report has not run.
NoDiff == [ran |-> FALSE, sections |-> { }]

DiffIdle == diff = NoDiff

\* The variables of the two runs in one process while another program is looked at.
ThreadsIdle ==
    /\ tsnap = << >> /\ tdb = << >> /\ tcfg = << >> /\ ignore_globals = NoIgnore
    /\ tpc = << >> /\ tfindings = << >> /\ texit = << >>

\* The variables of the schema extractor while another program is looked at.
ExtractorIdle ==
    /\ connection = 0 /\ conns = << >> /\ xpc = "idle" /\ xi = 0 /\ xfiles = { }
    /\ xexc = FALSE /\ xcalls = 0 /\ queries = { }

\* The variables of safe_api_call while another program is looked at.
RetryIdle ==
    /\ apc = "idle" /\ afunc = << >> /\ attempt = 0
    /\ acalls = 0 /\ aslept = 0 /\ aret = PyNone

\* The variables of the runner while another program is looked at.
RunnerIdle ==
    /\ upc = "idle" /\ uenv = << >> /\ ustarted = << >>
    /\ uwarned = FALSE /\ uexit = -1

\* The variables of separate_ddl_statements while another program is looked at.
SplitIdle ==
    /\ fpc = "idle" /\ statements = << >> /\ fi = 0
    /\ create_tables = << >> /\ alter_statements = << >>
    /\ alters_for_new = << >> /\ alters_for_existing = << >>
    /\ new_table_ddl = << >>

\* The variables of the DBUnit tools while another program is looked at.
DbunitIdle == bpc = "idle" /\ target = << >> /\ datasets = { } /\ compared = { }

\* The variables of a comparison run while another program is looked at.
RunIdle ==
    /\ variant = "none" /\ snap = << >> /\ db = << >> /\ ignore = NoIgnore
    /\ pc = "idle" /\ ti = 0 /\ trc = 0 /\ rc = 0 /\ findings = << >>
    /\ exit_status = -1 /\ fatal = FALSE /\ raised = 0 /\ ran = { }

\* No file written by an export run.
NothingWritten == [tables |-> { }, globals |-> { }, doc |-> FALSE]

\* The variables of an export run while another program is looked at.
ExportIdle ==
    /\ evariant = "none" /\ edb = << >> /\ disk = << >> /\ emem = << >> /\ eret = << >>
    /\ etargets = << >> /\ epc = "idle" /\ ei = 0 /\ ewritten = NothingWritten
    /\ eexit = -1 /\ efailed = FALSE

(***************************************************************************)
(* Canonicalization of a tree, of a reordering of it, and of the result    *)
(***************************************************************************)

\* The variables of the text normalizers while another program is looked at.
NormIdle == ns = PyNone /\ nout = PyNone /\ npc = "idle"

CanonIdle ==
    /\ cx = NoTree /\ cy = NoTree /\ ccfg = [ign |-> { }, nrm |-> { }]
    /\ cout = NoTree /\ cyout = NoTree /\ cout2 = NoTree /\ cpc = "idle"

InitCanon ==
    /\ cx \in Trees
    /\ cy \in Reorderings(cx)
    /\ ccfg \in CanonConfigs
    /\ cout = NoTree /\ cyout = NoTree /\ cout2 = NoTree
    /\ cpc = "start"
    /\ RunIdle
    /\ ExportIdle
    /\ NormIdle
    /\ DiffIdle
    /\ ThreadsIdle
    /\ ExtractorIdle
    /\ RetryIdle
    /\ RunnerIdle
    /\ SplitIdle
    /\ DbunitIdle

\* can = canonicalize(x, ignore_keys, normalize_sql_keys)
Canonicalize ==
    /\ cpc = "start"
    /\ cout' = canonicalize(cx, ccfg.ign, ccfg.nrm)
    /\ cpc' = "first"
    /\ UNCHANGED << cx, cy, ccfg, cyout, cout2, rvars, evars, nvars, dvars, tvars, xvars, avars, uvars, fvars, bvars >>

\* The same call on the reordered input.
CanonicalizeReordered ==
    /\ cpc = "first"
    /\ cyout' = canonicalize(cy, ccfg.ign, ccfg.nrm)
    /\ cpc' = "second"
    /\ UNCHANGED << cx, cy, ccfg, cout, cout2, rvars, evars, nvars, dvars, tvars, xvars, avars, uvars, fvars, bvars >>

\* The same call on the first call's output.
CanonicalizeAgain ==
    /\ cpc = "second"
    /\ cout2' = canonicalize(cout, ccfg.ign, ccfg.nrm)
    /\ cpc' = "done"
    /\ UNCHANGED << cx, cy, ccfg, cout, cyout, rvars, evars, nvars, dvars, tvars, xvars, avars, uvars, fvars, bvars >>

NextCanon == Canonicalize \/ CanonicalizeReordered \/ CanonicalizeAgain

SpecCanon == InitCanon /\ [][NextCanon]_vars

(***************************************************************************)
(* A comparison run                                                        *)
(*                                                                         *)
(* The snapshot and the database differ from an export of the base state   *)
(* in at most two parts: one part takes any of its options, a second part  *)
(* its drifted state.                                                      *)
(***************************************************************************)

\* The parts that drift next to the part that takes any of its options.
SecondDims == { "none", "tu", "tl", "views", "sequence_ownerships", "table_privileges" }

\* The number of queries that raise in one run.
MaxRaised == 1

Init ==
    /\ CanonIdle
    /\ ExportIdle
    /\ NormIdle
    /\ DiffIdle
    /\ ThreadsIdle
    /\ ExtractorIdle
    /\ RetryIdle
    /\ RunnerIdle
    /\ SplitIdle
    /\ DbunitIdle
    /\ \E pd \in Dims, sd \in SecondDims :
         \E po \in Options(pd), reversed \in BOOLEAN, tables_dir \in BOOLEAN :
            LET w == [ d \in Dims |->
                         IF d = pd THEN po
                         ELSE IF d = sd THEN << BaseSnap(d), DriftLive(d) >>
                         ELSE << BaseSnap(d), BaseLive(d) >> ]
            IN  /\ reversed => (w["tu"][1] # << >> /\ w["tl"][1] # << >>)
                /\ ~tables_dir => (pd = "tu" /\ po[1] = << >> /\ ~reversed)
                /\ snap = MakeSnap(w, reversed, tables_dir)
                /\ db = MakeDb(w)
    /\ variant \in Variants
    /\ ignore \in IgnoresOf(variant)
    /\ pc = "tables" /\ ti = 1 /\ trc = 0 /\ rc = 0
    /\ findings = << >> /\ exit_status = -1 /\ fatal = FALSE /\ raised = 0 /\ ran = { }

\* rc = r
AssignLast(a, r) == r

\* rc |= r
OrAssign(a, r) == IF a = 1 \/ r = 1 THEN 1 ELSE 0

\* "rc |= check(...)" in main: the check at position at prints out and returns
\* its rc; the run goes on with the check at position next.
RunCheck(v, at, next, out) ==
    /\ variant = v /\ pc = at
    /\ findings' = findings \o out
    /\ rc' = OrAssign(rc, RcOf(out))
    /\ pc' = next
    /\ ran' = ran \cup { at }
    /\ UNCHANGED << variant, snap, db, ignore, ti, trc, exit_status, fatal, raised, cvars, evars, nvars, dvars, tvars, xvars, avars, uvars, fvars, bvars >>

\* ---- test_schema_json.py ----

\* Line 36: os.listdir of a tables directory that is not there raises.
CmpTablesNoDir ==
    /\ variant = "json" /\ pc = "tables" /\ ~snap.tables_dir
    /\ pc' = "done" /\ exit_status' = 1 /\ fatal' = TRUE
    /\ UNCHANGED << variant, snap, db, ignore, ti, trc, rc, findings, ran, raised, cvars, evars, nvars, dvars, tvars, xvars, avars, uvars, fvars, bvars >>

\* Lines 37-113: one iteration of the loop of cmp_tables.
CmpTablesStep ==
    /\ variant = "json" /\ pc = "tables" /\ snap.tables_dir
    /\ ti <= Len(snap.tables)
    /\ LET out == cmp_tables_file(SortedFiles(snap.tables, << >>)[ti], db, ignore)
       IN  /\ findings' = findings \o out
           /\ trc' = IF out # << >> THEN 1 ELSE trc
    /\ ti' = ti + 1
    /\ UNCHANGED << variant, snap, db, ignore, pc, rc, exit_status, fatal, ran, raised, cvars, evars, nvars, dvars, tvars, xvars, avars, uvars, fvars, bvars >>

\* Lines 115 and 292: cmp_tables returns and main takes its rc.
CmpTablesReturn ==
    /\ variant = "json" /\ pc = "tables" /\ snap.tables_dir
    /\ ti > Len(snap.tables)
    /\ rc' = OrAssign(rc, trc)
    /\ pc' = "views"
    /\ ran' = ran \cup { "tables" }
    /\ UNCHANGED << variant, snap, db, ignore, ti, trc, findings, exit_status, fatal, raised, cvars, evars, nvars, dvars, tvars, xvars, avars, uvars, fvars, bvars >>

CmpViews == RunCheck("json", "views", "functions", cmp_views(snap.views, db))

CmpFunctions == RunCheck("json", "functions", "roles", cmp_functions(snap.functions, db))

CmpRoles ==
    RunCheck("json", "roles", "sequences", cmp_roles(snap.roles, snap.role_memberships, db))

CmpSequences ==
    RunCheck("json", "sequences", "indexes",
             cmp_sequences(snap.sequences, snap.sequence_ownerships, db))

CmpIndexes ==
    RunCheck("json", "indexes", "triggers",
             cmp_indexes(snap.indexes, db, ignore, IncludeSchemas, { }))

CmpTriggers ==
    RunCheck("json", "triggers", "table_owners",
             cmp_triggers(snap.triggers, db, ignore, IncludeSchemas, { }))

CmpTableOwners ==
    RunCheck("json", "table_owners", "table_privileges",
             cmp_table_owners(snap.table_owners, db, ignore, IncludeSchemas, { }))

CmpTablePrivileges ==
    RunCheck("json", "table_privileges", "exit",
             cmp_table_privileges(snap.table_privileges, db, ignore, IncludeSchemas, { }))

\* Lines 302-304 (test_schema_yaml.py, lines 203-205): sys.exit(1) if rc, else sys.exit(0).
MainExit ==
    /\ variant \in { "json", "yaml" } /\ pc = "exit"
    /\ exit_status' = IF rc # 0 THEN 1 ELSE 0
    /\ pc' = "done"
    /\ UNCHANGED << variant, snap, db, ignore, ti, trc, rc, findings, fatal, ran, raised, cvars, evars, nvars, dvars, tvars, xvars, avars, uvars, fvars, bvars >>

\* ---- test_schema_yaml.py ----

\* Line 21: the tables of the document by (schema, name); a later entry of
\* the same key replaces the earlier one in its place.
YamlWantTables(tables) ==
    LET key(t) == << t.schema, t.name >>
        keys == FirstSeen([ i \in 1..Len(tables) |-> key(tables[i]) ], << >>)
    IN  [ i \in 1..Len(keys) |-> tables[LastIndex(tables, LAMBDA t : key(t) = keys[i])] ]

\* Lines 23-96: one iteration of the loop of check_tables_columns.
CheckTablesColumnsStep ==
    /\ variant = "yaml" /\ pc = "tables"
    /\ ti <= Len(YamlWantTables(snap.tables))
    /\ LET out == check_tables_columns_table(YamlWantTables(snap.tables)[ti], db)
       IN  /\ findings' = findings \o out
           /\ trc' = IF out # << >> THEN 1 ELSE trc
    /\ ti' = ti + 1
    /\ UNCHANGED << variant, snap, db, ignore, pc, rc, exit_status, fatal, ran, raised, cvars, evars, nvars, dvars, tvars, xvars, avars, uvars, fvars, bvars >>

\* Lines 98 and 196.
CheckTablesColumnsReturn ==
    /\ variant = "yaml" /\ pc = "tables"
    /\ ti > Len(YamlWantTables(snap.tables))
    /\ rc' = OrAssign(rc, trc)
    /\ pc' = "views"
    /\ ran' = ran \cup { "tables" }
    /\ UNCHANGED << variant, snap, db, ignore, ti, trc, findings, exit_status, fatal, raised, cvars, evars, nvars, dvars, tvars, xvars, avars, uvars, fvars, bvars >>

CheckViews == RunCheck("yaml", "views", "functions", check_views(snap.views, db))

CheckFunctions == RunCheck("yaml", "functions", "roles", check_functions(snap.functions, db))

CheckRoles ==
    RunCheck("yaml", "roles", "sequences", check_roles(snap.roles, snap.role_memberships, db))

CheckSequences ==
    RunCheck("yaml", "sequences", "exit",
             check_sequences(snap.sequences, snap.sequence_ownerships, db))

\* ---- A query that fails (test_schema_json.py, test_schema_yaml.py) ----

\* The lines the checks of one table have printed when each of their four
\* queries is issued.
TableQueryPoints(obj, live, ig) ==
    IF live.cols = << >> THEN { << >> }
    ELSE { << >>,
           ColumnsCheck(obj, live.cols, ig),
           ColumnsCheck(obj, live.cols, ig) \o PkCheck(obj, live.pk),
           ColumnsCheck(obj, live.cols, ig) \o PkCheck(obj, live.pk)
               \o UniqueCheck(obj, live.uqs) }

\* The lines the check at pc has printed when each of its queries is issued.
QueryPoints ==
    LET one(file) == IF file.exists THEN { << >> } ELSE { }
        files == SortedFiles(snap.tables, << >>)
        docs == YamlWantTables(snap.tables)
    IN  IF variant = "json"
        THEN CASE pc = "tables" ->
                    IF snap.tables_dir /\ ti <= Len(files)
                       /\ ~_should_ignore_table(ignore.tables, files[ti].schema, files[ti].name)
                    THEN TableQueryPoints(files[ti],
                             LiveTable(db, files[ti].schema, files[ti].name), ignore)
                    ELSE { }
               [] pc = "roles" ->
                    one(snap.roles)
                    \cup (IF snap.role_memberships.exists
                          THEN { cmp_roles(snap.roles, NoFile, db) } ELSE { })
               [] pc = "sequences" ->
                    (IF snap.sequences.exists /\ snap.sequences.rows # << >>
                     THEN { << >> } ELSE { })
                    \cup (IF snap.sequence_ownerships.exists
                          THEN { cmp_sequences(snap.sequences, NoFile, db) } ELSE { })
               [] pc \in { "exit", "done" } -> { }
               [] OTHER -> one(snap[pc])
        ELSE CASE pc = "tables" ->
                    IF ti <= Len(docs)
                    THEN TableQueryPoints(docs[ti],
                             LiveTable(db, docs[ti].schema, docs[ti].name), NoIgnore)
                    ELSE { }
               [] pc \in { "views", "functions" } ->
                    IF YamlList(snap[pc]) # << >> THEN { << >> } ELSE { }
               [] pc = "roles" ->
                    { << >>, cmp_roles(YamlFile(snap.roles), NoFile, db) }
               [] pc = "sequences" ->
                    (IF YamlList(snap.sequences) # << >> THEN { << >> } ELSE { })
                    \cup (IF YamlList(snap.sequence_ownerships) # << >>
                          THEN { cmp_sequences(YamlFile(snap.sequences), NoFile, db) }
                          ELSE { })
               [] OTHER -> { }

\* conn.execute raises: nothing catches the exception, the process ends
\* with a traceback and exit status 1 after the lines printed so far.
QueryFail ==
    /\ variant \in { "json", "yaml" } /\ raised < MaxRaised
    /\ \E printed \in QueryPoints : findings' = findings \o printed
    /\ pc' = "done" /\ exit_status' = 1 /\ fatal' = TRUE
    /\ raised' = raised + 1
    /\ UNCHANGED << variant, snap, db, ignore, ti, trc, rc, ran, cvars, evars, nvars, dvars, tvars, xvars, avars, uvars, fvars, bvars >>

\* ---- tests/test_schema.py, run by pytest ----
\* Each test is taken to run once (test_table_structure once per snapshot
\* file, in the order of snapshots["table_files"]); a test whose assert
\* fails or that raises is a failed test, and the session goes on.

\* What the session records of the test at position at.
RunTest(at, next, out) == RunCheck("pytest", at, next, out)

TestTableStructure ==
    /\ variant = "pytest" /\ pc = "tables"
    /\ ti <= Len(snap.tables)
    /\ LET out == test_table_structure(snap.tables[ti], db, ignore)
       IN  /\ findings' = findings \o out
           /\ rc' = OrAssign(rc, RcOf(out))
    /\ ti' = ti + 1
    /\ UNCHANGED << variant, snap, db, ignore, pc, trc, exit_status, fatal, ran, raised, cvars, evars, nvars, dvars, tvars, xvars, avars, uvars, fvars, bvars >>

\* The parametrized test has run for every snapshot file.
TestTableStructureDone ==
    /\ variant = "pytest" /\ pc = "tables"
    /\ ti > Len(snap.tables)
    /\ pc' = "views"
    /\ ran' = ran \cup { "tables" }
    /\ UNCHANGED << variant, snap, db, ignore, ti, trc, rc, findings, exit_status, fatal, raised, cvars, evars, nvars, dvars, tvars, xvars, avars, uvars, fvars, bvars >>

TestViews == RunTest("views", "functions", test_views(snap.views, db))

TestFunctions == RunTest("functions", "roles", test_functions(snap.functions, db))

TestRolesAndMemberships ==
    RunTest("roles", "sequences",
            test_roles_and_memberships(snap.roles, snap.role_memberships, db))

TestSequences == RunTest("sequences", "sequence_ownerships", test_sequences(snap.sequences, db))

TestSequenceOwnerships ==
    RunTest("sequence_ownerships", "indexes",
            test_sequence_ownerships(snap.sequence_ownerships, db))

TestIndexes == RunTest("indexes", "triggers", test_indexes(snap.indexes, db, ignore))

TestTriggers == RunTest("triggers", "table_owners", test_triggers(snap.triggers, db, ignore))

TestTableOwners ==
    RunTest("table_owners", "table_privileges", test_table_owners(snap.table_owners, db, ignore))

TestTablePrivileges ==
    RunTest("table_privileges", "exit", test_table_privileges(snap.table_privileges, db, ignore))

\* A query of the test at pc raises: the test fails, the session goes on.
\* A test that is skipped issues no query.
TestQueryError ==
    /\ variant = "pytest" /\ pc \notin { "exit", "done" } /\ raised < MaxRaised
    /\ IF pc = "tables"
       THEN /\ ti <= Len(snap.tables)
            /\ ~_ignore_table(ignore, snap.tables[ti].schema, snap.tables[ti].name)
            /\ ti' = ti + 1
            /\ UNCHANGED << pc, ran >>
       ELSE /\ snap[IF pc = "roles" /\ snap.roles.exists THEN "role_memberships" ELSE pc].exists
            /\ pc' = CASE pc = "views" -> "functions" [] pc = "functions" -> "roles"
                       [] pc = "roles" -> "sequences" [] pc = "sequences" -> "sequence_ownerships"
                       [] pc = "sequence_ownerships" -> "indexes" [] pc = "indexes" -> "triggers"
                       [] pc = "triggers" -> "table_owners"
                       [] pc = "table_owners" -> "table_privileges"
                       [] pc = "table_privileges" -> "exit"
            /\ ran' = ran \cup { pc }
            /\ UNCHANGED ti
    /\ findings' = Append(findings, Listing(pc, "error", { }, { }))
    /\ rc' = 1
    /\ raised' = raised + 1
    /\ UNCHANGED << variant, snap, db, ignore, trc, exit_status, fatal, cvars, evars, nvars, dvars, tvars, xvars, avars, uvars, fvars, bvars >>

\* The session ends: exit status 1 if a test has failed, else 0.
SessionFinish ==
    /\ variant = "pytest" /\ pc = "exit"
    /\ exit_status' = IF rc # 0 THEN 1 ELSE 0
    /\ pc' = "done"
    /\ UNCHANGED << variant, snap, db, ignore, ti, trc, rc, findings, fatal, ran, raised, cvars, evars, nvars, dvars, tvars, xvars, avars, uvars, fvars, bvars >>

\* ---- generate_html_diff.py ----

\* The rows of SQL_LIST_TABLES: the tables of the included schemas,
\* ORDER BY 1,2.
ListTables(database) ==
    LET ks == { k \in DOMAIN database.tables :
                  /\ database.tables[k].cols # << >>
                  /\ InSchemas(k[1], IncludeSchemas, { }) }
    IN  CHOOSE s \in [1..Cardinality(ks) -> ks] :
            /\ Range(s) = ks
            /\ \A i, j \in 1..Cardinality(ks) : i < j => TupleLess(s[i], s[j])

\* Lines 94-104: the triggers of the live database, one per key, in the
\* order in which the keys are first seen.
MaterializedTriggers(rows) ==
    LET key(r) == << r.table_schema, r.table_name, r.trigger_name >>
        keys == FirstSeen([ i \in 1..Len(rows) |-> key(rows[i]) ], << >>)
    IN  [ i \in 1..Len(keys) |->
            [table_schema |-> keys[i][1], table |-> keys[i][2], name |-> keys[i][3],
             timing |-> rows[LastIndex(rows, LAMBDA r : key(r) = keys[i])].action_timing,
             events |-> SortedStrs({ rows[j].event_manipulation :
                            j \in { m \in 1..Len(rows) : key(rows[m]) = keys[i] } })] ]

\* Lines 27-112: the live database in the layout of the snapshot.  The
\* table entries are a dict by "schema.table"; the entries and the lists
\* are built by the statements of the exporter, except the triggers.
materialize_dev(database, include_schemas, exclude_schemas) ==
    [tables |-> { << Dotted(k[1], k[2]), ExportedTable(k[1], k[2], database.tables[k]) >> :
                    k \in Range(ListTables(database)) },
     lists |-> [ i \in 1..Len(GlobalFiles) |->
                   IF GlobalFiles[i] = "triggers"
                   THEN MaterializedTriggers(
                            SelectSeq(database.triggers,
                                LAMBDA r : InSchemas(r.table_schema, include_schemas,
                                                     exclude_schemas)))
                   ELSE ExportedGlobal(GlobalFiles[i], database, include_schemas,
                                       exclude_schemas) ]]

\* Lines 11-25: the snapshot directory as one tree; a file that is not
\* there leaves its list empty.
load_snapshot_tree(snapshot) ==
    [tables |-> IF snapshot.tables_dir
                THEN { << Dotted(t.schema, t.name), t >> : t \in Range(snapshot.tables) }
                ELSE { },
     lists |-> [ i \in 1..Len(GlobalFiles) |->
                   IF snapshot[GlobalFiles[i]].exists THEN snapshot[GlobalFiles[i]].rows
                   ELSE << >> ]]

\* Lines 133-136: the sections in which the two texts, dumped with sorted
\* keys, have a differing line.
DifferingSections(snap_tree, live) ==
    (IF snap_tree.tables # live.tables THEN { "tables" } ELSE { })
    \cup { GlobalFiles[i] : i \in { j \in 1..Len(GlobalFiles) :
                                      snap_tree.lists[j] # live.lists[j] } }

\* Lines 114-140: main of generate_html_diff.py on the snapshot and the
\* database of the comparison run.
GenerateHtmlDiff ==
    /\ variant = "json" /\ pc = "done" /\ ~diff.ran
    /\ diff' = [ran |-> TRUE,
                sections |-> DifferingSections(load_snapshot_tree(snap),
                                 materialize_dev(db, IncludeSchemas, { }))]
    /\ UNCHANGED << rvars, cvars, evars, nvars, tvars, xvars, avars, uvars, fvars, bvars >>

Next ==
    \/ CmpTablesNoDir \/ CmpTablesStep \/ CmpTablesReturn
    \/ CmpViews \/ CmpFunctions \/ CmpRoles \/ CmpSequences \/ CmpIndexes
    \/ CmpTriggers \/ CmpTableOwners \/ CmpTablePrivileges \/ MainExit
    \/ CheckTablesColumnsStep \/ CheckTablesColumnsReturn
    \/ CheckViews \/ CheckFunctions \/ CheckRoles \/ CheckSequences
    \/ QueryFail
    \/ TestTableStructure \/ TestTableStructureDone
    \/ TestViews \/ TestFunctions \/ TestRolesAndMemberships \/ TestSequences
    \/ TestSequenceOwnerships \/ TestIndexes \/ TestTriggers \/ TestTableOwners
    \/ TestTablePrivileges \/ TestQueryError \/ SessionFinish
    \/ GenerateHtmlDiff

Spec == Init /\ [][Next]_vars

(***************************************************************************)
(* An export run                                                           *)
(*                                                                         *)
(* export_schema_json.py writes one file per table and one per global      *)
(* category under the output directory; export_schema_yaml.py builds one   *)
(* document in memory and writes it at the end.  A query raises at any of  *)
(* the places where the code calls conn.execute.                           *)
(***************************************************************************)

\* Whether the output location holds an earlier export before the run.
DiskStates == { "empty", "old" }

\* The output location before the run: nothing, or an export of the base state.
InitialDisk(state) ==
    LET w == [ d \in Dims |->
                 IF state = "old" THEN << BaseSnap(d), BaseLive(d) >>
                 ELSE << IF d \in { "tu", "tl" } THEN << >> ELSE NoFile, BaseLive(d) >> ]
    IN  ("doc" :> << >>) @@ MakeSnap(w, FALSE, state = "old")

\* What export_snapshot starts from (lines 14-22).
EmptySnap ==
    [tables |-> << >>, views |-> << >>, functions |-> << >>, roles |-> << >>,
     role_memberships |-> << >>, sequences |-> << >>, sequence_ownerships |-> << >>]

\* open(path, "w") of tables/{schema}.{table}.json: the file replaces a file
\* of the same name.
WriteTableFile(files, entry) ==
    IF \E i \in 1..Len(files) : FileName(files[i]) = FileName(entry)
    THEN [ i \in 1..Len(files) |->
             IF FileName(files[i]) = FileName(entry) THEN entry ELSE files[i] ]
    ELSE Append(files, entry)

\* The sections of export_snapshot after the tables, in the order of its queries.
YamlSections == << "views", "functions", "sequences", "sequence_ownerships" >>

\* Sets of rows of SQL_FKS for p.u: the composite key as the query's join
\* of key_column_usage and constraint_column_usage on the constraint name
\* alone delivers it (every local column with every referenced column),
\* and two constraints, one of which has rows that name different tables.
FkRowSets ==
    { { FkRow(EM, L, ID, 1), FkRow(EM, L, EM, 1), FkRow(ID, L, ID, 2), FkRow(ID, L, EM, 2) },
      { FkRow(ID, L, EM, 2), FkRow(EM, U, ID, 1),
        [FkRow(XC, L, ID, 1) EXCEPT !.constraint_name = << "g" >>] } }

\* The rows of a set in every order of arrival.
FkArrivals ==
    UNION { { s \in [1..Cardinality(rows) -> rows] : Range(s) = rows } : rows \in FkRowSets }

\* The database in which the FK query of p.u returns the rows fk_rows.
WithFks(database, fk_rows) ==
    IF database.tables[<< P, U >>].cols = << >> THEN database
    ELSE [database EXCEPT !.tables[<< P, U >>].fks = fk_rows]

InitExport ==
    /\ CanonIdle
    /\ RunIdle
    /\ NormIdle
    /\ DiffIdle
    /\ ThreadsIdle
    /\ ExtractorIdle
    /\ RetryIdle
    /\ RunnerIdle
    /\ SplitIdle
    /\ DbunitIdle
    /\ evariant \in { "json", "yaml" }
    /\ \E pd \in Dims : \E po \in Options(pd) :
         LET database == MakeDb([ d \in Dims |->
                                   IF d = pd THEN po ELSE << BaseSnap(d), BaseLive(d) >> ])
         IN  \E fk_rows \in FkArrivals \cup { database.tables[<< P, U >>].fks } :
                 edb = WithFks(database, fk_rows)
    /\ \E state \in DiskStates : disk = InitialDisk(state)
    /\ emem = EmptySnap /\ eret = << >> /\ etargets = << >>
    /\ epc = "start" /\ ei = 1 /\ ewritten = NothingWritten
    /\ eexit = -1 /\ efailed = FALSE

\* ---- export_schema_json.py ----

\* main, line 199: os.makedirs(os.path.join(out_dir, "tables"), exist_ok=True).
ExportMakeDirs ==
    /\ evariant = "json" /\ epc = "start"
    /\ disk' = [disk EXCEPT !.tables_dir = TRUE]
    /\ epc' = "list"
    /\ UNCHANGED << evariant, edb, emem, eret, etargets, ei, ewritten, eexit, efailed,
                    cvars, rvars, nvars, dvars, tvars, xvars, avars, uvars, fvars, bvars >>

\* main, lines 208-212: targets = the rows of SQL_LIST_TABLES.
ExportListTables ==
    /\ evariant = "json" /\ epc = "list"
    /\ etargets' = ListTables(edb)
    /\ ei' = 1
    /\ epc' = "tables"
    /\ UNCHANGED << evariant, edb, disk, emem, eret, ewritten, eexit, efailed, cvars, rvars, nvars, dvars, tvars, xvars, avars, uvars, fvars, bvars >>

\* main, lines 214-215, with export_table: the four queries of one table,
\* then the write of its file.
ExportTable ==
    /\ evariant = "json" /\ epc = "tables" /\ ei <= Len(etargets)
    /\ LET entry == ExportedTable(etargets[ei][1], etargets[ei][2],
                                  LiveTable(edb, etargets[ei][1], etargets[ei][2]))
       IN  /\ disk' = [disk EXCEPT !.tables = WriteTableFile(@, entry)]
           /\ ewritten' = [ewritten EXCEPT !.tables = @ \cup { FileName(entry) }]
    /\ ei' = ei + 1
    /\ UNCHANGED << evariant, edb, emem, eret, etargets, epc, eexit, efailed, cvars, rvars, nvars, dvars, tvars, xvars, avars, uvars, fvars, bvars >>

\* main, line 217: the loop over the targets has ended, export_globals starts.
ExportTablesDone ==
    /\ evariant = "json" /\ epc = "tables" /\ ei > Len(etargets)
    /\ epc' = "globals" /\ ei' = 1
    /\ UNCHANGED << evariant, edb, disk, emem, eret, etargets, ewritten, eexit, efailed,
                    cvars, rvars, nvars, dvars, tvars, xvars, avars, uvars, fvars, bvars >>

\* export_globals, lines 65-180: the query of one global category, then the
\* write of its file.
ExportGlobal ==
    /\ evariant = "json" /\ epc = "globals" /\ ei <= Len(GlobalFiles)
    /\ LET file == GlobalFiles[ei]
       IN  /\ disk' = [disk EXCEPT ![file] = File(ExportedGlobal(file, edb, IncludeSchemas, { }))]
           /\ ewritten' = [ewritten EXCEPT !.globals = @ \cup { file }]
    /\ ei' = ei + 1
    /\ UNCHANGED << evariant, edb, emem, eret, etargets, epc, eexit, efailed, cvars, rvars, nvars, dvars, tvars, xvars, avars, uvars, fvars, bvars >>

\* main, line 219: the connection is closed and "Done." is printed.
ExportDone ==
    /\ evariant = "json" /\ epc = "globals" /\ ei > Len(GlobalFiles)
    /\ epc' = "done" /\ eexit' = 0
    /\ UNCHANGED << evariant, edb, disk, emem, eret, etargets, ei, ewritten, efailed,
                    cvars, rvars, nvars, dvars, tvars, xvars, avars, uvars, fvars, bvars >>

\* ---- export_schema_yaml.py ----

\* export_snapshot, lines 25-36: roles and role memberships.
YamlExportRoles ==
    /\ evariant = "yaml" /\ epc = "start"
    /\ emem' = [emem EXCEPT
                  !.roles = ExportedGlobal("roles", edb, IncludeSchemas, { }),
                  !.role_memberships =
                      ExportedGlobal("role_memberships", edb, IncludeSchemas, { })]
    /\ epc' = "list"
    /\ UNCHANGED << evariant, edb, disk, eret, etargets, ei, ewritten, eexit, efailed,
                    cvars, rvars, nvars, dvars, tvars, xvars, avars, uvars, fvars, bvars >>

\* export_snapshot, lines 39-43: the rows of SQL_LIST_TABLES.
YamlExportListTables ==
    /\ evariant = "yaml" /\ epc = "list"
    /\ etargets' = ListTables(edb)
    /\ ei' = 1
    /\ epc' = "tables"
    /\ UNCHANGED << evariant, edb, disk, emem, eret, ewritten, eexit, efailed, cvars, rvars, nvars, dvars, tvars, xvars, avars, uvars, fvars, bvars >>

\* export_snapshot, lines 45-90: the four queries of one table, then
\* snap["tables"].append(entry).
YamlExportTable ==
    /\ evariant = "yaml" /\ epc = "tables" /\ ei <= Len(etargets)
    /\ emem' = [emem EXCEPT !.tables =
                  Append(@, ExportedTable(etargets[ei][1], etargets[ei][2],
                                          LiveTable(edb, etargets[ei][1], etargets[ei][2])))]
    /\ ei' = ei + 1
    /\ UNCHANGED << evariant, edb, disk, eret, etargets, epc, ewritten, eexit, efailed,
                    cvars, rvars, nvars, dvars, tvars, xvars, avars, uvars, fvars, bvars >>

\* The loop over the tables has ended.
YamlExportTablesDone ==
    /\ evariant = "yaml" /\ epc = "tables" /\ ei > Len(etargets)
    /\ epc' = "sections" /\ ei' = 1
    /\ UNCHANGED << evariant, edb, disk, emem, eret, etargets, ewritten, eexit, efailed,
                    cvars, rvars, nvars, dvars, tvars, xvars, avars, uvars, fvars, bvars >>

\* export_snapshot, lines 93-147: the query of one of the remaining sections.
YamlExportSection ==
    /\ evariant = "yaml" /\ epc = "sections" /\ ei <= Len(YamlSections)
    /\ emem' = [emem EXCEPT ![YamlSections[ei]] =
                  ExportedGlobal(YamlSections[ei], edb, IncludeSchemas, { })]
    /\ ei' = ei + 1
    /\ UNCHANGED << evariant, edb, disk, eret, etargets, epc, ewritten, eexit, efailed,
                    cvars, rvars, nvars, dvars, tvars, xvars, avars, uvars, fvars, bvars >>

\* export_snapshot, line 149: return snap.
YamlExportReturn ==
    /\ evariant = "yaml" /\ epc = "sections" /\ ei > Len(YamlSections)
    /\ eret' = << emem >>
    /\ epc' = "write"
    /\ UNCHANGED << evariant, edb, disk, emem, etargets, ei, ewritten, eexit, efailed,
                    cvars, rvars, nvars, dvars, tvars, xvars, avars, uvars, fvars, bvars >>

\* main, lines 165-169: the document is written.
YamlExportWrite ==
    /\ evariant = "yaml" /\ epc = "write"
    /\ disk' = [disk EXCEPT !.doc = eret]
    /\ ewritten' = [ewritten EXCEPT !.doc = TRUE]
    /\ epc' = "done" /\ eexit' = 0
    /\ UNCHANGED << evariant, edb, emem, eret, etargets, ei, efailed, cvars, rvars, nvars, dvars, tvars, xvars, avars, uvars, fvars, bvars >>

\* conn.execute raises in either exporter: nothing catches the exception and
\* nothing is removed; the process ends with a traceback and exit status 1.
ExportQueryFail ==
    /\ \/ evariant = "json" /\ epc = "list"
       \/ evariant = "json" /\ epc = "tables" /\ ei <= Len(etargets)
       \/ evariant = "json" /\ epc = "globals" /\ ei <= Len(GlobalFiles)
       \/ evariant = "yaml" /\ epc \in { "start", "list" }
       \/ evariant = "yaml" /\ epc = "tables" /\ ei <= Len(etargets)
       \/ evariant = "yaml" /\ epc = "sections" /\ ei <= Len(YamlSections)
    /\ epc' = "done" /\ eexit' = 1 /\ efailed' = TRUE
    /\ UNCHANGED << evariant, edb, disk, emem, eret, etargets, ei, ewritten, cvars, rvars, nvars, dvars, tvars, xvars, avars, uvars, fvars, bvars >>

NextExport ==
    \/ ExportMakeDirs \/ ExportListTables \/ ExportTable \/ ExportTablesDone
    \/ ExportGlobal \/ ExportDone
    \/ YamlExportRoles \/ YamlExportListTables \/ YamlExportTable \/ YamlExportTablesDone
    \/ YamlExportSection \/ YamlExportReturn \/ YamlExportWrite
    \/ ExportQueryFail

SpecExport == InitExport /\ [][NextExport]_vars

(***************************************************************************)
(* The text normalizers                                                    *)
(***************************************************************************)

\* The characters of the texts handed to the normalizers.
TextChars == { "a", "b", " ", "\n", "\t" }

\* The length of the longest text.
MaxTextLen == 6

Texts == UNION { [1..n -> TextChars] : n \in 0..MaxTextLen }

\* norm of the YAML tools: "" for None, else " ".join(s.split()).
norm(v) == IF v.t = "none" THEN PyStr(<< >>) ELSE PyStr(FoldWs(v.s))

InitNorm ==
    /\ ns \in { PyStr(s) : s \in Texts } \cup { PyNone }
    /\ nout = PyNone
    /\ npc = "start"
    /\ CanonIdle
    /\ RunIdle
    /\ ExportIdle
    /\ DiffIdle
    /\ ThreadsIdle
    /\ ExtractorIdle
    /\ RetryIdle
    /\ RunnerIdle
    /\ SplitIdle
    /\ DbunitIdle

\* _norm_sql(s) of tools/normalize.py
NormalizeSql ==
    /\ npc = "start"
    /\ nout' = _norm_sql(ns)
    /\ npc' = "_norm_sql"
    /\ UNCHANGED << ns, cvars, rvars, evars, dvars, tvars, xvars, avars, uvars, fvars, bvars >>

\* norm(s) of the YAML exporter and comparator
NormYaml ==
    /\ npc = "start"
    /\ nout' = norm(ns)
    /\ npc' = "norm"
    /\ UNCHANGED << ns, cvars, rvars, evars, dvars, tvars, xvars, avars, uvars, fvars, bvars >>

\* norm_sql(s) of the JSON exporter and comparator
NormJson ==
    /\ npc = "start"
    /\ nout' = norm_sql(ns)
    /\ npc' = "norm_sql"
    /\ UNCHANGED << ns, cvars, rvars, evars, dvars, tvars, xvars, avars, uvars, fvars, bvars >>

NextNorm == NormalizeSql \/ NormYaml \/ NormJson

SpecNorm == InitNorm /\ [][NextNorm]_vars

(***************************************************************************)
(* Two runs of the JSON comparator in one process                          *)
(*                                                                         *)
(* main() of test_schema_json.py called by two threads of one process:     *)
(* each call reads its own configuration file, the ignore settings are     *)
(* globals of the module.                                                  *)
(***************************************************************************)

Runs == { 1, 2 }

\* The parts of the database that have drifted from the snapshot.
DriftedParts == { "none", "tu", "tl", "table_privileges" }

\* Lines 293-300: the checks of main after cmp_tables, in their order.
GlobalChecks ==
    << "views", "functions", "roles", "sequences", "indexes", "triggers",
       "table_owners", "table_privileges" >>

\* The call of one of these checks, with the ignore settings it reads.
GlobalCheck(check, snapshot, database, ignore_cfg) ==
    CASE check = "views" -> cmp_views(snapshot.views, database)
      [] check = "functions" -> cmp_functions(snapshot.functions, database)
      [] check = "roles" -> cmp_roles(snapshot.roles, snapshot.role_memberships, database)
      [] check = "sequences" ->
           cmp_sequences(snapshot.sequences, snapshot.sequence_ownerships, database)
      [] check = "indexes" ->
           cmp_indexes(snapshot.indexes, database, ignore_cfg, IncludeSchemas, { })
      [] check = "triggers" ->
           cmp_triggers(snapshot.triggers, database, ignore_cfg, IncludeSchemas, { })
      [] check = "table_owners" ->
           cmp_table_owners(snapshot.table_owners, database, ignore_cfg, IncludeSchemas, { })
      [] check = "table_privileges" ->
           cmp_table_privileges(snapshot.table_privileges, database, ignore_cfg,
                                IncludeSchemas, { })

InitThreads ==
    /\ \E dd \in DriftedParts :
          LET w == [ d \in Dims |->
                       << BaseSnap(d), IF d = dd THEN DriftLive(d) ELSE BaseLive(d) >> ]
          IN  tsnap = MakeSnap(w, FALSE, TRUE) /\ tdb = MakeDb(w)
    /\ tcfg \in { c \in [Runs -> IgnoresOf("json")] : c[1] # c[2] }
    /\ ignore_globals = NoIgnore
    /\ tpc = [ r \in Runs |-> [at |-> "main", i |-> 0] ]
    /\ tfindings = [ r \in Runs |-> << >> ]
    /\ texit = [ r \in Runs |-> -1 ]
    /\ CanonIdle
    /\ RunIdle
    /\ ExportIdle
    /\ NormIdle
    /\ DiffIdle
    /\ ExtractorIdle
    /\ RetryIdle
    /\ RunnerIdle
    /\ SplitIdle
    /\ DbunitIdle

\* Lines 279-285: main stores the ignore settings of its configuration in
\* the globals of the module.
SetIgnoreGlobals(r) ==
    /\ tpc[r].at = "main"
    /\ ignore_globals' = tcfg[r]
    /\ tpc' = [tpc EXCEPT ![r] = [at |-> "tables", i |-> 1]]
    /\ UNCHANGED << tsnap, tdb, tcfg, tfindings, texit, cvars, rvars, evars, nvars, dvars, xvars, avars, uvars, fvars, bvars >>

\* Lines 37-113: one iteration of the loop of cmp_tables; the ignore
\* settings are read from the globals.
ThreadCmpTablesStep(r) ==
    /\ tpc[r].at = "tables" /\ tpc[r].i <= Len(tsnap.tables)
    /\ tfindings' = [tfindings EXCEPT ![r] =
                        @ \o cmp_tables_file(SortedFiles(tsnap.tables, << >>)[tpc[r].i],
                                             tdb, ignore_globals)]
    /\ tpc' = [tpc EXCEPT ![r].i = @ + 1]
    /\ UNCHANGED << tsnap, tdb, tcfg, ignore_globals, texit, cvars, rvars, evars, nvars, dvars, xvars, avars, uvars, fvars, bvars >>

\* Line 115: cmp_tables returns.
ThreadCmpTablesReturn(r) ==
    /\ tpc[r].at = "tables" /\ tpc[r].i > Len(tsnap.tables)
    /\ tpc' = [tpc EXCEPT ![r] = [at |-> "checks", i |-> 1]]
    /\ UNCHANGED << tsnap, tdb, tcfg, ignore_globals, tfindings, texit, cvars, rvars, evars, nvars, dvars, xvars, avars, uvars, fvars, bvars >>

\* Lines 293-300: the next check of main.
ThreadGlobalCheck(r) ==
    /\ tpc[r].at = "checks" /\ tpc[r].i <= Len(GlobalChecks)
    /\ tfindings' = [tfindings EXCEPT ![r] =
                        @ \o GlobalCheck(GlobalChecks[tpc[r].i], tsnap, tdb, ignore_globals)]
    /\ tpc' = [tpc EXCEPT ![r].i = @ + 1]
    /\ UNCHANGED << tsnap, tdb, tcfg, ignore_globals, texit, cvars, rvars, evars, nvars, dvars, xvars, avars, uvars, fvars, bvars >>

\* Lines 302-304: the status of the run, 1 if a check has printed a finding.
ThreadExit(r) ==
    /\ tpc[r].at = "checks" /\ tpc[r].i > Len(GlobalChecks)
    /\ texit' = [texit EXCEPT ![r] = RcOf(tfindings[r])]
    /\ tpc' = [tpc EXCEPT ![r] = [at |-> "done", i |-> 0]]
    /\ UNCHANGED << tsnap, tdb, tcfg, ignore_globals, tfindings, cvars, rvars, evars, nvars, dvars, xvars, avars, uvars, fvars, bvars >>

NextThreads ==
    \E r \in Runs :
        \/ SetIgnoreGlobals(r)
        \/ ThreadCmpTablesStep(r)
        \/ ThreadCmpTablesReturn(r)
        \/ ThreadGlobalCheck(r)
        \/ ThreadExit(r)

SpecThreads == InitThreads /\ [][NextThreads]_vars

(***************************************************************************)
(* The schema extractor (pyTest_validator/schema_extractor.py)             *)
(***************************************************************************)

\* The number of calls of extract_all_schemas on one SchemaExtractor.
MaxCalls == 2

\* Lines 267-291: the kinds of objects, in the order of their extraction.
ExtractedKinds == << "tables", "views", "functions", "indexes", "sequences" >>

\* self.connection.close(), left out.
disconnect_skipped(conn, connections) == connections

\* Lines 42-46: disconnect closes self.connection if it is set.
disconnect(conn, connections) ==
    IF conn # 0 THEN [connections EXCEPT ![conn] = "closed"] ELSE connections

\* The state of the connection execute_query takes its cursor from.
ConnectionState(conn, connections) == IF conn = 0 THEN "none" ELSE connections[conn]

\* extractor = SchemaExtractor(...); extractor.extract_all_schemas()
InitExtract ==
    /\ connection = 0 /\ conns = << >> /\ xpc = "connect" /\ xi = 0 /\ xfiles = { }
    /\ xexc = FALSE /\ xcalls = 1 /\ queries = { }
    /\ CanonIdle
    /\ RunIdle
    /\ ExportIdle
    /\ NormIdle
    /\ DiffIdle
    /\ ThreadsIdle
    /\ RetryIdle
    /\ RunnerIdle
    /\ SplitIdle
    /\ DbunitIdle

\* Lines 33-37 and 255: psycopg2.connect returns a connection.
Connect ==
    /\ xpc = "connect"
    /\ conns' = Append(conns, "open")
    /\ connection' = Len(conns) + 1
    /\ xpc' = "metadata"
    /\ UNCHANGED << xi, xfiles, xexc, xcalls, queries, cvars, rvars, evars, nvars, dvars, tvars, avars, uvars, fvars, bvars >>

\* Lines 38-40: psycopg2.connect raises, connect logs and raises again.
ConnectFail ==
    /\ xpc = "connect"
    /\ xexc' = TRUE
    /\ xpc' = "finally"
    /\ UNCHANGED << connection, conns, xi, xfiles, xcalls, queries, cvars, rvars, evars, nvars, dvars, tvars, avars, uvars, fvars, bvars >>

\* Lines 257-266: the metadata is saved, or save_to_json raises.
SaveMetadata ==
    /\ xpc = "metadata"
    /\ \E saved \in BOOLEAN :
          IF saved
          THEN xfiles' = xfiles \cup { "metadata" } /\ xi' = 1 /\ xpc' = "extract"
                  /\ UNCHANGED xexc
          ELSE xexc' = TRUE /\ xpc' = "finally" /\ UNCHANGED << xfiles, xi >>
    /\ UNCHANGED << connection, conns, xcalls, queries, cvars, rvars, evars, nvars, dvars, tvars, avars, uvars, fvars, bvars >>

\* Lines 48-56 and 270, 275, 280, 285, 290: the query of one kind is
\* executed on self.connection and returns its rows, or raises.
ExtractKind ==
    /\ xpc = "extract"
    /\ queries' = queries \cup { [call |-> xcalls, kind |-> ExtractedKinds[xi],
                                  on |-> ConnectionState(connection, conns)] }
    /\ \E returned \in BOOLEAN :
          IF returned /\ ConnectionState(connection, conns) = "open"
          THEN xpc' = "save" /\ UNCHANGED xexc
          ELSE xexc' = TRUE /\ xpc' = "finally"
    /\ UNCHANGED << connection, conns, xi, xfiles, xcalls, cvars, rvars, evars, nvars, dvars, tvars, avars, uvars, fvars, bvars >>

\* Lines 241-250 and 271, 276, 281, 286, 291: the rows are saved, or
\* save_to_json raises.
SaveKind ==
    /\ xpc = "save"
    /\ \E saved \in BOOLEAN :
          IF saved
          THEN /\ xfiles' = xfiles \cup { ExtractedKinds[xi] }
               /\ xi' = xi + 1
               /\ xpc' = IF xi = Len(ExtractedKinds) THEN "finally" ELSE "extract"
               /\ UNCHANGED xexc
          ELSE xexc' = TRUE /\ xpc' = "finally" /\ UNCHANGED << xfiles, xi >>
    /\ UNCHANGED << connection, conns, xcalls, queries, cvars, rvars, evars, nvars, dvars, tvars, avars, uvars, fvars, bvars >>

\* Lines 295-299: the finally clause disconnects; the call returns, or the
\* exception leaves it.
Disconnect ==
    /\ xpc = "finally"
    /\ conns' = disconnect(connection, conns)
    /\ xpc' = IF xexc THEN "raised" ELSE "returned"
    /\ UNCHANGED << connection, xi, xfiles, xexc, xcalls, queries, cvars, rvars, evars, nvars, dvars, tvars, avars, uvars, fvars, bvars >>

\* extract_all_schemas is called again on the same extractor.
ExtractAgain ==
    /\ xpc \in { "returned", "raised" } /\ xcalls < MaxCalls
    /\ xcalls' = xcalls + 1
    /\ xexc' = FALSE /\ xi' = 0
    /\ xpc' = "connect"
    /\ UNCHANGED << connection, conns, xfiles, queries, cvars, rvars, evars, nvars, dvars, tvars, avars, uvars, fvars, bvars >>

NextExtract ==
    \/ Connect \/ ConnectFail \/ SaveMetadata \/ ExtractKind \/ SaveKind
    \/ Disconnect \/ ExtractAgain

SpecExtract == InitExtract /\ [][NextExtract]_vars

(***************************************************************************)
(* AtlasAPI.py: the retry wrapper safe_api_call                            *)
(***************************************************************************)

\* Lines 21-22.
RETRY_COUNT == 3
RETRY_DELAY == 5

\* What the wrapped function hands back when it returns: None, a filled or an
\* empty answer.
ApiResults == { PyNone, PyStr(<< "r" >>), PyStr(<< >>) }

\* What one call of the wrapped function does: it returns a value, raises a
\* RequestException, or raises another Exception.
CallOutcomes ==
    [kind : { "return" }, value : ApiResults]
        \cup [kind : { "RequestException", "Exception" }, value : { PyNone }]

retry_unbounded(a) == a < RETRY_COUNT

\* Line 41: a failed request is retried unless the attempt was the last one.
retry_allowed(a) == a < RETRY_COUNT - 1

\* safe_api_call(func) is entered; func is given by what each of its calls,
\* in order, will do.
InitRetry ==
    /\ afunc \in [1..(RETRY_COUNT + 1) -> CallOutcomes]
    /\ attempt = 0 /\ apc = "call" /\ acalls = 0 /\ aslept = 0 /\ aret = PyNone
    /\ CanonIdle
    /\ RunIdle
    /\ ExportIdle
    /\ NormIdle
    /\ DiffIdle
    /\ ThreadsIdle
    /\ ExtractorIdle
    /\ RunnerIdle
    /\ SplitIdle
    /\ DbunitIdle

\* Lines 35-38: func returns and its result is returned.
CallReturns ==
    /\ apc = "call" /\ afunc[acalls + 1].kind = "return"
    /\ acalls' = acalls + 1
    /\ aret' = afunc[acalls + 1].value
    /\ apc' = "returned"
    /\ UNCHANGED << afunc, attempt, aslept, cvars, rvars, evars, nvars, dvars, tvars, xvars, uvars, fvars, bvars >>

\* Lines 39-46: func raises a RequestException; the wrapper goes on to sleep,
\* or returns None after the last attempt.
CallRequestException ==
    /\ apc = "call" /\ afunc[acalls + 1].kind = "RequestException"
    /\ acalls' = acalls + 1
    /\ IF retry_allowed(attempt)
       THEN apc' = "sleep" /\ UNCHANGED aret
       ELSE apc' = "returned" /\ aret' = PyNone
    /\ UNCHANGED << afunc, attempt, aslept, cvars, rvars, evars, nvars, dvars, tvars, xvars, uvars, fvars, bvars >>

\* Lines 47-49: func raises another Exception; None is returned.
CallException ==
    /\ apc = "call" /\ afunc[acalls + 1].kind = "Exception"
    /\ acalls' = acalls + 1
    /\ aret' = PyNone
    /\ apc' = "returned"
    /\ UNCHANGED << afunc, attempt, aslept, cvars, rvars, evars, nvars, dvars, tvars, xvars, uvars, fvars, bvars >>

\* Lines 43 and 33: time.sleep(RETRY_DELAY), then the for loop takes the next
\* attempt; a loop that has run out falls off the function, which returns None.
Sleep ==
    /\ apc = "sleep"
    /\ aslept' = aslept + RETRY_DELAY
    /\ attempt' = attempt + 1
    /\ IF attempt + 1 < RETRY_COUNT
       THEN apc' = "call" /\ UNCHANGED aret
       ELSE apc' = "returned" /\ aret' = PyNone
    /\ UNCHANGED << afunc, acalls, cvars, rvars, evars, nvars, dvars, tvars, xvars, uvars, fvars, bvars >>

NextRetry == CallReturns \/ CallRequestException \/ CallException \/ Sleep

\* Every call of func and every sleep ends.
SpecRetry == InitRetry /\ [][NextRetry]_vars /\ WF_vars(NextRetry)

(***************************************************************************)
(* schemacrawler_pytest_poc/tools/runner.py                                *)
(***************************************************************************)

\* How a child process ends: it exits with a code, or a signal kills it.
ExitCodes == { [kind |-> "exit", n |-> c] : c \in 0..2 }

PytestEnds ==
    { [kind |-> "exit", n |-> c] : c \in 0..5 }
        \cup { [kind |-> "signal", n |-> g] : g \in { 2, 9 } }

\* subprocess.call: the exit code, or the negated signal number.
returncode(end) == IF end.kind = "exit" THEN end.n ELSE 0 - end.n

sys_exit_flag(status) == IF status = 0 THEN 0 ELSE 1

\* Line 19: sys.exit ends the process with the low eight bits of its argument.
sys_exit(status) == status % 256

\* python tools/runner.py is started, with or without --config.
InitRunner ==
    /\ uenv \in [config : BOOLEAN, export : ExitCodes, diff : ExitCodes,
                 pytest : PytestEnds]
    /\ upc = "parse" /\ ustarted = << >> /\ uwarned = FALSE /\ uexit = -1
    /\ CanonIdle
    /\ RunIdle
    /\ ExportIdle
    /\ NormIdle
    /\ DiffIdle
    /\ ThreadsIdle
    /\ ExtractorIdle
    /\ RetryIdle
    /\ SplitIdle
    /\ DbunitIdle

\* Lines 4-6: argparse ends the process with status 2 when --config is missing.
ParseArgs ==
    /\ upc = "parse"
    /\ IF uenv.config
       THEN upc' = "export" /\ UNCHANGED uexit
       ELSE upc' = "exited" /\ uexit' = 2
    /\ UNCHANGED << uenv, ustarted, uwarned, cvars, rvars, evars, nvars, dvars, tvars, xvars, avars, fvars, bvars >>

\* Line 9: check_call of the export; a non-zero exit raises CalledProcessError,
\* which nothing catches, and the interpreter ends with status 1.
RunExport ==
    /\ upc = "export"
    /\ ustarted' = Append(ustarted, "export")
    /\ IF returncode(uenv.export) = 0
       THEN upc' = "diff" /\ UNCHANGED uexit
       ELSE upc' = "exited" /\ uexit' = 1
    /\ UNCHANGED << uenv, uwarned, cvars, rvars, evars, nvars, dvars, tvars, xvars, avars, fvars, bvars >>

\* Lines 12-13: check_call of the diff report inside try.
RunDiffReport ==
    /\ upc = "diff"
    /\ ustarted' = Append(ustarted, "diff")
    /\ upc' = IF returncode(uenv.diff) = 0 THEN "tests" ELSE "warn"
    /\ UNCHANGED << uenv, uwarned, uexit, cvars, rvars, evars, nvars, dvars, tvars, xvars, avars, fvars, bvars >>

\* Lines 14-15: the exception is caught and a warning printed.
WarnDiffReport ==
    /\ upc = "warn"
    /\ uwarned' = TRUE
    /\ upc' = "tests"
    /\ UNCHANGED << uenv, ustarted, uexit, cvars, rvars, evars, nvars, dvars, tvars, xvars, avars, fvars, bvars >>

\* Lines 18-19: pytest is run and its return code handed to sys.exit.
RunTests ==
    /\ upc = "tests"
    /\ ustarted' = Append(ustarted, "pytest")
    /\ uexit' = sys_exit(returncode(uenv.pytest))
    /\ upc' = "exited"
    /\ UNCHANGED << uenv, uwarned, cvars, rvars, evars, nvars, dvars, tvars, xvars, avars, fvars, bvars >>

NextRunner == ParseArgs \/ RunExport \/ RunDiffReport \/ WarnDiffReport \/ RunTests

SpecRunner == InitRunner /\ [][NextRunner]_vars

(***************************************************************************)
(* FileSplit.py: separate_ddl_statements                                   *)
(***************************************************************************)

\* A statement is the sequence of its tokens.  The statements looked at: two
\* different CREATE TABLE statements for table a, one with IF NOT EXISTS,
\* three ALTER TABLE statements and a statement of another kind.
DdlStatements ==
    { << "CREATE", "TABLE", "a", "(", "x", ")" >>,
      << "CREATE", "TABLE", "a", "(", "y", ")" >>,
      << "CREATE", "TABLE", "IF", "NOT", "EXISTS", "b" >>,
      << "ALTER", "TABLE", "a", "ADD", "PRIMARY", "KEY" >>,
      << "ALTER", "TABLE", "ONLY", "a", "ADD", "FOREIGN", "KEY" >>,
      << "ALTER", "TABLE", "b", "ADD", "x" >>,
      << "DROP", "INDEX", "i" >> }

MaxStmts == 3

\* Line 9: the tokens [\w\.]+ matches.
IsWord(tok) == tok \notin { "(", ")", ";" }

\* Lines 9-10: where re.search can match: the command, then a word.
MatchesAt(statement, command, i) ==
    /\ i + Len(command) <= Len(statement)
    /\ SubSeq(statement, i, i + Len(command) - 1) = command
    /\ IsWord(statement[i + Len(command)])

\* None.
NoTableName == ""

\* Lines 8-13: the word after the leftmost command, an ONLY before another
\* word skipped; None without a match.  (No token here is quoted.)
extract_table_name(statement, command) ==
    LET at == { i \in 1..Len(statement) : MatchesAt(statement, command, i) }
    IN  IF at = { } THEN NoTableName
        ELSE LET i == CHOOSE m \in at : \A n \in at : m <= n
                 j == i + Len(command)
             IN  IF statement[j] = "ONLY" /\ j + 1 <= Len(statement)
                                         /\ IsWord(statement[j + 1])
                 THEN statement[j + 1]
                 ELSE statement[j]

\* Lines 15-16 and 18-19.
is_primary_key(statement) ==
    \E i \in 1..(Len(statement) - 1) :
        statement[i] = "PRIMARY" /\ statement[i + 1] = "KEY"

is_foreign_key(statement) ==
    \E i \in 1..(Len(statement) - 1) :
        statement[i] = "FOREIGN" /\ statement[i + 1] = "KEY"

\* Line 31: d[k] = v on a dict kept as its items in insertion order.
DictSet(d, k, v) ==
    IF \E i \in 1..Len(d) : d[i][1] = k
    THEN [i \in 1..Len(d) |-> IF d[i][1] = k THEN << k, v >> ELSE d[i]]
    ELSE Append(d, << k, v >>)

\* Lines 49-51: the statements altering the created table of that name.
alters_grouped(table_name) ==
    LET mine == SelectSeq(alters_for_new, LAMBDA p : p[2] = table_name)
    IN  [i \in 1..Len(mine) |-> mine[i][1]]

\* Lines 23-26: the input is split into its non-empty statements.
InitSplit ==
    /\ statements \in UNION { [1..n -> DdlStatements] : n \in 0..MaxStmts }
    /\ fpc = "classify" /\ fi = 1
    /\ create_tables = << >> /\ alter_statements = << >>
    /\ alters_for_new = << >> /\ alters_for_existing = << >>
    /\ new_table_ddl = << >>
    /\ CanonIdle
    /\ RunIdle
    /\ ExportIdle
    /\ NormIdle
    /\ DiffIdle
    /\ ThreadsIdle
    /\ ExtractorIdle
    /\ RetryIdle
    /\ RunnerIdle
    /\ DbunitIdle

\* Lines 28-33: one statement is filed under its table name, or kept as a
\* statement that creates no table.
ClassifyStmt ==
    /\ fpc = "classify" /\ fi <= Len(statements)
    /\ LET stmt == statements[fi]
           table_name == extract_table_name(stmt, << "CREATE", "TABLE" >>)
       IN  IF table_name # NoTableName
           THEN /\ create_tables' = DictSet(create_tables, table_name, Append(stmt, ";"))
                /\ UNCHANGED alter_statements
           ELSE /\ alter_statements' = Append(alter_statements, Append(stmt, ";"))
                /\ UNCHANGED create_tables
    /\ fi' = fi + 1
    /\ UNCHANGED << statements, fpc, alters_for_new, alters_for_existing, new_table_ddl, cvars, rvars, evars, nvars, dvars, tvars, xvars, avars, uvars, bvars >>

\* Line 28: the first loop ends.
ClassifyDone ==
    /\ fpc = "classify" /\ fi > Len(statements)
    /\ fpc' = "alters" /\ fi' = 1
    /\ UNCHANGED << statements, create_tables, alter_statements, alters_for_new, alters_for_existing, new_table_ddl, cvars, rvars, evars, nvars, dvars, tvars, xvars, avars, uvars, bvars >>

\* Lines 38-46: one remaining statement goes to the created table it alters,
\* or to the statements for existing tables.
SortAlter ==
    /\ fpc = "alters" /\ fi <= Len(alter_statements)
    /\ LET stmt == alter_statements[fi]
           table_name == extract_table_name(stmt, << "ALTER", "TABLE" >>)
       IN  IF table_name # NoTableName
                /\ \E i \in 1..Len(create_tables) : create_tables[i][1] = table_name
           THEN /\ alters_for_new' = Append(alters_for_new, << stmt, table_name >>)
                /\ UNCHANGED alters_for_existing
           ELSE /\ alters_for_existing' = Append(alters_for_existing, stmt)
                /\ UNCHANGED alters_for_new
    /\ fi' = fi + 1
    /\ UNCHANGED << statements, fpc, create_tables, alter_statements, new_table_ddl, cvars, rvars, evars, nvars, dvars, tvars, xvars, avars, uvars, bvars >>

\* Line 38: the second loop ends.
SortDone ==
    /\ fpc = "alters" /\ fi > Len(alter_statements)
    /\ fpc' = "emit" /\ fi' = 1
    /\ UNCHANGED << statements, create_tables, alter_statements, alters_for_new, alters_for_existing, new_table_ddl, cvars, rvars, evars, nvars, dvars, tvars, xvars, avars, uvars, bvars >>

\* Lines 54-63: a created table's statement, then its primary-key, foreign-key
\* and other alterations.
EmitTable ==
    /\ fpc = "emit" /\ fi <= Len(create_tables)
    /\ LET table_name == create_tables[fi][1]
           create_stmt == create_tables[fi][2]
           mine == alters_grouped(table_name)
           pk_stmts == SelectSeq(mine, is_primary_key)
           fk_stmts == SelectSeq(mine, LAMBDA s : ~is_primary_key(s) /\ is_foreign_key(s))
           other_stmts == SelectSeq(mine, LAMBDA s : ~is_primary_key(s) /\ ~is_foreign_key(s))
       IN  new_table_ddl' =
               new_table_ddl \o << create_stmt >> \o pk_stmts \o fk_stmts \o other_stmts
    /\ fi' = fi + 1
    /\ UNCHANGED << statements, fpc, create_tables, alter_statements, alters_for_new, alters_for_existing, cvars, rvars, evars, nvars, dvars, tvars, xvars, avars, uvars, bvars >>

\* Line 65: the two lists are returned.
SplitReturn ==
    /\ fpc = "emit" /\ fi > Len(create_tables)
    /\ fpc' = "returned"
    /\ UNCHANGED << statements, fi, create_tables, alter_statements, alters_for_new, alters_for_existing, new_table_ddl, cvars, rvars, evars, nvars, dvars, tvars, xvars, avars, uvars, bvars >>

NextSplit ==
    \/ ClassifyStmt \/ ClassifyDone \/ SortAlter \/ SortDone
    \/ EmitTable \/ SplitReturn

SpecSplit == InitSplit /\ [][NextSplit]_vars

(***************************************************************************)
(* dbunit_framework: export_sandbox.py and test_release_dbunit.py          *)
(***************************************************************************)

\* The characters of schema and table names, and the names looked at.
NameChars == { "a", "b", "_" }

MaxNameLen == 2

DbNames == UNION { [1..n -> NameChars] : n \in 1..MaxNameLen }

DotXml == << ".", "x", "m", "l" >>

\* str.replace(old, new): every occurrence, from the left, none overlapping.
RECURSIVE replace(_, _, _)
replace(s, old, new) ==
    IF Len(s) < Len(old) THEN s
    ELSE IF SubSeq(s, 1, Len(old)) = old
         THEN new \o replace(SubSeq(s, Len(old) + 1, Len(s)), old, new)
         ELSE << Head(s) >> \o replace(Tail(s), old, new)

\* os.path.join(dir, name) and os.path.basename(path).
PathJoin(dir, name) == dir \o << "/" >> \o name

basename(path) ==
    LET slashes == { i \in 1..Len(path) : path[i] = "/" }
    IN  IF slashes = { } THEN path
        ELSE SubSeq(path, (CHOOSE m \in slashes : \A n \in slashes : n <= m) + 1,
                    Len(path))

\* The --outdir and --datasets_dir default.
DatasetsDir == << "d" >>

\* export_sandbox.py line 77: the row tag of a table's dataset.
RowTag(schema, table) == schema \o << "." >> \o table

\* export_sandbox.py line 79: the file name of a table's dataset.
SafeName(schema, table) == schema \o << "_" >> \o table \o DotXml

\* test_release_dbunit.py line 55: the table name taken from a file name.
derive_table_name(xml) ==
    replace(replace(basename(xml), DotXml, << >>), << "_" >>, << "." >>)

\* export_sandbox is started for one table; the datasets directory is empty.
InitDbunit ==
    /\ target \in DbNames \X DbNames
    /\ bpc = "export" /\ datasets = { } /\ compared = { }
    /\ CanonIdle
    /\ RunIdle
    /\ ExportIdle
    /\ NormIdle
    /\ DiffIdle
    /\ ThreadsIdle
    /\ ExtractorIdle
    /\ RetryIdle
    /\ RunnerIdle
    /\ SplitIdle

\* export_sandbox.py lines 72-83: the table's rows are written under its tag
\* to the file schema_table.xml.
ExportSandboxTable ==
    /\ bpc = "export"
    /\ datasets' = { [path |-> PathJoin(DatasetsDir, SafeName(target[1], target[2])),
                      tag |-> RowTag(target[1], target[2])] }
    /\ bpc' = "test"
    /\ UNCHANGED << target, compared, cvars, rvars, evars, nvars, dvars, tvars, xvars, avars, uvars, fvars >>

\* test_release_dbunit.py lines 53-60: every dataset file is compared under
\* the table name taken from its file name.
DbunitCompare ==
    /\ bpc = "test"
    /\ compared' = { [path |-> f.path, table_name |-> derive_table_name(f.path)] :
                     f \in datasets }
    /\ bpc' = "done"
    /\ UNCHANGED << target, datasets, cvars, rvars, evars, nvars, dvars, tvars, xvars, avars, uvars, fvars >>

NextDbunit == ExportSandboxTable \/ DbunitCompare

SpecDbunit == InitDbunit /\ [][NextDbunit]_vars

(***************************************************************************)
(* Claims                                                                  *)
(***************************************************************************)

\* A run of the JSON or YAML comparator that has ended, no query having raised.
Settled == pc = "done" /\ ~fatal /\ raised = 0 /\ variant \in { "json", "yaml" }

\* The indexes of the findings of one category and kind.
FindingsOf(cat, kind) ==
    { i \in 1..Len(findings) : findings[i].cat = cat /\ findings[i].kind = kind }

\* The entities that the findings of one category and kind list.
Reported(cat, kind) == UNION { findings[i].keys : i \in FindingsOf(cat, kind) }

\* The number of findings of one category and kind that list the entity k.
CountOf(cat, kind, k) == Cardinality({ i \in FindingsOf(cat, kind) : k \in findings[i].keys })

\* The snapshot tables the run compares, and the tables of its findings.
ComparedTables ==
    { t \in Range(snap.tables) : ~_should_ignore_table(ignore.tables, t.schema, t.name) }

\* C1 (as stated): no finding of any category names a table whose
\* "schema.table" matches a glob of ignore.tables.
C1_IgnoredTableUnnamed ==
    \A i \in 1..Len(findings) : \A t \in findings[i].tables :
        ~_should_ignore_table(ignore.tables, t[1], t[2])

\* C2 (as stated): for a column in both the snapshot and the live table and
\* a compared field, a Changed finding with the expected and the actual value
\* is emitted if and only if the two values differ.
C2_ChangedIffDiffer ==
    Settled =>
        \A t \in ComparedTables :
            LET live == LiveTable(db, t.schema, t.name)
            IN  live.cols # << >> =>
                \A ci \in 1..Len(t.columns) :
                    LET c == t.columns[ci]
                    IN  (/\ c.name \in { live.cols[j].column_name : j \in 1..Len(live.cols) }
                         /\ ~_ignored_column(ignore.columns, t.schema, t.name, c.name))
                        => \A k \in (DOMAIN c.meta) \ ignore.column_fields :
                              (\E i \in FindingsOf("columns", "changed") :
                                   /\ findings[i].keys = { << t.schema, t.name, c.name >> }
                                   /\ findings[i].field = k
                                   /\ findings[i].want = c.meta[k]
                                   /\ findings[i].have = ActualOf(live.cols, c.name)[k])
                              <=> c.meta[k] # ActualOf(live.cols, c.name)[k]

\* The keyed categories with the keys of the snapshot and of the live
\* database after ignore filtering.
KeyedCats == { "tables", "views", "functions", "roles", "sequences" }

WantKeys(cat) ==
    CASE cat = "tables" -> { << t.schema, t.name >> : t \in ComparedTables }
      [] cat = "views" -> { << r.schema, r.name >> : r \in Range(snap.views.rows) }
      [] cat = "functions" -> { << r.schema, r.name, r.args >> : r \in Range(snap.functions.rows) }
      [] cat = "roles" -> { r.name : r \in Range(snap.roles.rows) }
      [] cat = "sequences" -> { << r.schema, r.name >> : r \in Range(snap.sequences.rows) }

HaveKeys(cat) ==
    CASE cat = "tables" ->
           { k \in DOMAIN db.tables :
               db.tables[k].cols # << >> /\ ~_should_ignore_table(ignore.tables, k[1], k[2]) }
      [] cat = "views" -> { << r.table_schema, r.table_name >> : r \in Range(db.views) }
      [] cat = "functions" -> { << r.schema, r.name, OrEmpty(r.args).s >> : r \in Range(db.functions) }
      [] cat = "roles" -> { r.rolname : r \in Range(db.roles) }
      [] cat = "sequences" -> { << r.sequence_schema, r.sequence_name >> : r \in Range(db.sequences) }

\* Whether the key k, in both, has the same value on both sides.
SameValue(cat, k) ==
    CASE cat = "views" ->
           \A w \in Range(snap.views.rows), h \in Range(db.views) :
               (<< w.schema, w.name >> = k /\ << h.table_schema, h.table_name >> = k)
               => FoldWs(w.definition_norm.s) = FoldWs(h.definition.s)
      [] cat = "functions" ->
           \A w \in Range(snap.functions.rows), h \in Range(db.functions) :
               (<< w.schema, w.name, w.args >> = k /\ << h.schema, h.name, OrEmpty(h.args).s >> = k)
               => w.definition_hash.s = FoldWs(h.definition.s)
      [] OTHER -> TRUE

\* No finding of the category lists the key k.
Unlisted(cat, k) == \A i \in 1..Len(findings) : findings[i].cat = cat => k \notin findings[i].keys

\* C3 (as stated): in every keyed category each key of the snapshot that the
\* live database lacks is listed by exactly one Missing finding, each key
\* of the live database that the snapshot lacks by exactly one Unexpected
\* finding, and a key in both with equal values by none.
C3_MissingAndUnexpected ==
    Settled =>
        \A cat \in KeyedCats :
            /\ \A k \in WantKeys(cat) \ HaveKeys(cat) : CountOf(cat, "missing", k) = 1
            /\ \A k \in HaveKeys(cat) \ WantKeys(cat) : CountOf(cat, "unexpected", k) = 1
            /\ \A k \in WantKeys(cat) \cap HaveKeys(cat) : SameValue(cat, k) => Unlisted(cat, k)

\* C4 (as stated), for the role memberships and the sequence ownerships of
\* a snapshot that holds the category: the entries reported as missing are
\* want minus have and the entries reported as unexpected are have minus
\* want, for every pair of sets including an empty want.
C4_SetDifferences ==
    Settled =>
        /\ (variant = "yaml" \/ snap.role_memberships.exists) =>
              LET want == { << m.role, m.member >> : m \in Range(snap.role_memberships.rows) }
                  have == { << m.role, m.member >> : m \in Range(db.role_members) }
              IN  /\ Reported("role_memberships", "missing") = want \ have
                  /\ Reported("role_memberships", "unexpected") = have \ want
        /\ (variant = "yaml" \/ snap.sequence_ownerships.exists) =>
              LET want == WantOwns(snap.sequence_ownerships.rows)
                  have == HaveOwns(db)
              IN  /\ Reported("seq_ownerships", "missing") = want \ have
                  /\ Reported("seq_ownerships", "unexpected") = have \ want

\* The FK tuples of the live table with each column-mapping list in
\* ordinal order.
OrdinalFks(fk_rows) ==
    LET fks == ExportedFks(fk_rows)
    IN  [ i \in 1..Len(fks) |->
            << fks[i].name, fks[i].ref_schema, fks[i].ref_table,
               [ j \in 1..Len(fks[i].columns) |->
                   << fks[i].columns[j].local, fks[i].columns[j].remote >> ] >> ]

\* The column list of a primary key, empty when there is none.
PkColumns(pk, field) == IF pk = << >> THEN << >> ELSE pk[1][field]

\* C5 (as stated): the primary-key column list and the column-mapping list
\* of every foreign key are compared as ordered sequences: a table gets a
\* finding when the lists of the snapshot and the lists of the live table in
\* ordinal order differ, and none when they are the same sequences.
C5_OrderedSequences ==
    Settled =>
        \A t \in ComparedTables :
            LET live == LiveTable(db, t.schema, t.name)
                key == << t.schema, t.name >>
            IN  live.cols # << >> =>
                /\ (\E i \in 1..Len(findings) : findings[i].cat = "pk" /\ key \in findings[i].keys)
                   <=> PkColumns(t.primary_key, "columns") # PkColumns(live.pk, "colnames")
                /\ (\E i \in 1..Len(findings) : findings[i].cat = "fk" /\ key \in findings[i].keys)
                   <=> BagOfSeq(WantFks(t)) # BagOfSeq(OrdinalFks(live.fks))

\* The checks of a run, and the sub-checks of one table with what each
\* finds when it is run alone.
AllChecks ==
    CASE variant = "json" ->
           { "tables", "views", "functions", "roles", "sequences", "indexes", "triggers",
             "table_owners", "table_privileges" }
      [] variant = "yaml" -> { "tables", "views", "functions", "roles", "sequences" }
      [] variant = "pytest" ->
           { "tables", "views", "functions", "roles", "sequences", "sequence_ownerships",
             "indexes", "triggers", "table_owners", "table_privileges" }

SubCheckAlone(t, live, cat) ==
    IF variant = "pytest"
    THEN CASE cat = "columns" -> PytestColumnsCheck(t, live.cols, ignore)
           [] cat = "pk" -> PytestPkCheck(t, live.pk)
           [] cat = "unique" -> UniqueCheck(t, live.uqs)
           [] cat = "fk" -> PytestFkCheck(t, live.fks)
    ELSE CASE cat = "columns" -> ColumnsCheck(t, live.cols, ignore)
           [] cat = "pk" -> PkCheck(t, live.pk)
           [] cat = "unique" -> UniqueCheck(t, live.uqs)
           [] cat = "fk" -> FkCheck(t, live.fks)

\* C6 (as stated): a run that hits no fatal error has executed every check
\* when it ends, and for every table that exists each sub-check that finds a
\* discrepancy has reported it, whatever the other sub-checks found.
C6_FullPass ==
    (pc = "done" /\ ~fatal /\ raised = 0) =>
        /\ ran = AllChecks
        /\ \A t \in ComparedTables :
              LET live == LiveTable(db, t.schema, t.name)
              IN  live.cols # << >> =>
                  \A cat \in { "columns", "pk", "unique", "fk" } :
                      SubCheckAlone(t, live, cat) # << >>
                      => \E i \in 1..Len(findings) :
                            /\ findings[i].cat = cat
                            /\ << t.schema, t.name >> \in findings[i].tables

\* C7: when a run ends without a fatal error its exit status is 0 if and
\* only if no finding was emitted; while it runs, a finding that was emitted
\* keeps the status failing whatever the later checks find.
C7_ExitStatus ==
    /\ (pc = "done" /\ ~fatal) => (exit_status = 0 <=> findings = << >>)
    /\ (findings # << >> /\ ~fatal) => (rc = 1 \/ trc = 1)

\* C7 witness: a run of the JSON comparator has ended with exit status 1
\* after a table check that printed a finding and eight checks that
\* printed none.
C7_Witness ==
    /\ pc = "done" /\ ~fatal /\ variant = "json" /\ exit_status = 1
    /\ findings # << >>
    /\ \A i \in 1..Len(findings) : findings[i].cat \in { "columns", "pk", "unique", "fk" }

\* C8 (as stated): canonicalize returns identical output for a tree and for
\* the same tree with the elements of lists inside it permuted.
C8_OrderIndependent ==
    cpc \in { "second", "done" } => cyout = cout

\* C9: canonicalize is idempotent: canonicalizing the output of
\* canonicalize, with the same key sets, returns that output unchanged.
C9_Idempotent ==
    cpc = "done" => cout2 = cout

\* C9 witness: a run is finished in which the first call reordered a list
\* and dropped or normalized something below it.
C9_Witness ==
    /\ cpc = "done"
    /\ cx.t = "list" /\ Len(cx.c) = 2
    /\ cout # cx
    /\ cout.c # << cx.c[1], cx.c[2] >>
    /\ cout.c # << cx.c[2], cx.c[1] >>


\* C10 (as stated): when a query has raised during an export, the export has
\* ended with an error, export_snapshot has returned no snapshot, and none of
\* the table files, global files or documents of this run is on disk.
C10_NoPartialSnapshot ==
    efailed => (eexit = 1 /\ eret = << >> /\ ewritten = NothingWritten)

\* C11 (as stated): when a query has raised in a run of the JSON or YAML
\* comparator, the run has ended with a non-zero exit status and has
\* emitted no finding before the abort.
C11_NoFindingBeforeAbort ==
    (variant \in { "json", "yaml" } /\ raised > 0) =>
        (pc = "done" /\ exit_status = 1 /\ findings = << >>)

\* The snapshot files (sections of the YAML document) that a run of the
\* variant reads.
SnapshotFilesOf(v) ==
    IF v = "yaml"
    THEN { "views", "functions", "roles", "role_memberships", "sequences",
           "sequence_ownerships" }
    ELSE Range(GlobalFiles)

\* C12 (as stated): a run whose snapshot lacks the tables directory (the
\* tables section of the YAML document) or one of the snapshot files (one of
\* the other sections) never ends with exit status 0.
C12_MissingSnapshotFatal ==
    (/\ pc = "done"
     /\ \/ ~snap.tables_dir
        \/ \E file \in SnapshotFilesOf(variant) : ~snap[file].exists)
    => exit_status # 0

\* The names of the columns of a snapshot table and of the live table that
\* ignore.columns does not list for the table.
KeptWantColumns(t) ==
    { t.columns[i].name : i \in 1..Len(t.columns) }
    \ IgnoredColumnsOf(ignore, t.schema, t.name)

KeptHaveColumns(t, live) ==
    { live.cols[i].column_name : i \in 1..Len(live.cols) }
    \ IgnoredColumnsOf(ignore, t.schema, t.name)

\* The snapshot table and the live table have the same columns, and every
\* column the same value in every field outside the set of field names.
AgreeOutside(t, live, field_names) ==
    /\ KeptWantColumns(t) = KeptHaveColumns(t, live)
    /\ \A i \in 1..Len(t.columns) :
          t.columns[i].name \in KeptWantColumns(t) =>
              \A k \in Fields \ field_names :
                  /\ k \in DOMAIN t.columns[i].meta
                  /\ t.columns[i].meta[k] = ActualOf(live.cols, t.columns[i].name)[k]

\* C13 (as stated): with a field name in ignore.column_fields, no Changed
\* finding is about that field, and a snapshot table and a live table that
\* agree on all other fields get no column finding at all.
C13_IgnoredFieldSilent ==
    ignore.column_fields # { } =>
        /\ \A i \in 1..Len(findings) :
              (findings[i].cat = "columns" /\ findings[i].kind = "changed")
              => findings[i].field \notin ignore.column_fields
        /\ \A t \in ComparedTables :
              LET live == LiveTable(db, t.schema, t.name)
              IN  (live.cols # << >> /\ AgreeOutside(t, live, ignore.column_fields))
                  => \A i \in 1..Len(findings) :
                        findings[i].cat = "columns" => << t.schema, t.name >> \notin findings[i].tables

\* The column findings that name the table t.
ColumnFindingsOn(t) ==
    { i \in 1..Len(findings) :
        findings[i].cat = "columns" /\ << t.schema, t.name >> \in findings[i].tables }

\* The run has compared every table and no query has raised.
TablesCompared == pc \notin { "idle", "tables" } /\ raised = 0 /\ ~fatal

ExportedEntries ==
    IF evariant = "json"
    THEN { e \in Range(disk.tables) : FileName(e) \in ewritten.tables }
    ELSE IF evariant = "yaml" THEN Range(emem.tables) ELSE { }

\* The FK record fk is built from its constraint's rows of fk_rows: its
\* column-mapping list holds the (local, remote) pair of every row once, in
\* ascending ordinal position, and its referenced table is that of a row
\* with the lowest ordinal position.
BuiltFrom(fk, fk_rows) ==
    LET grp == { i \in 1..Len(fk_rows) : fk_rows[i].constraint_name = fk.name }
    IN  /\ grp # { }
        /\ Len(fk.columns) = Cardinality(grp)
        /\ \E pi \in [1..Len(fk.columns) -> grp] :
              /\ \A i, j \in 1..Len(fk.columns) : i # j => pi[i] # pi[j]
              /\ \A j \in 1..Len(fk.columns) :
                    /\ fk.columns[j].local = fk_rows[pi[j]].column_name
                    /\ fk.columns[j].remote = fk_rows[pi[j]].foreign_column_name
              /\ \A i, j \in 1..Len(fk.columns) :
                    i < j => fk_rows[pi[i]].ordinal_position <= fk_rows[pi[j]].ordinal_position
        /\ \E i \in grp :
              /\ \A j \in grp : fk_rows[i].ordinal_position <= fk_rows[j].ordinal_position
              /\ fk.ref_schema = fk_rows[i].foreign_table_schema
              /\ fk.ref_table = fk_rows[i].foreign_table_name

\* C15: every table entry an exporter has built holds exactly one FK record
\* per distinct constraint name of the table's FK rows, whatever the order
\* the rows arrived in, and every record is built from its constraint's
\* rows in ascending ordinal position with the referenced schema and table
\* of the row of lowest ordinal position.
C15_FkBuilder ==
    \A e \in ExportedEntries :
        LET fk_rows == LiveTable(edb, e.schema, e.name).fks
            names == { fk_rows[i].constraint_name : i \in 1..Len(fk_rows) }
        IN  /\ Len(e.foreign_keys) = Cardinality(names)
            /\ { e.foreign_keys[i].name : i \in 1..Len(e.foreign_keys) } = names
            /\ \A i \in 1..Len(e.foreign_keys) : BuiltFrom(e.foreign_keys[i], fk_rows)

\* C15 witness: an exporter has built the entry of p.u from FK rows of two
\* constraints, the row of position 2 of one constraint having arrived
\* before its row of position 1.
C15_Witness ==
    \E e \in ExportedEntries :
        LET fk_rows == LiveTable(edb, e.schema, e.name).fks
        IN  /\ << e.schema, e.name >> = << P, U >>
            /\ Len(e.foreign_keys) = 2
            /\ \E i, j \in 1..Len(fk_rows) :
                  /\ i < j
                  /\ fk_rows[i].constraint_name = fk_rows[j].constraint_name
                  /\ fk_rows[i].ordinal_position > fk_rows[j].ordinal_position

\* What the table check of the running variant finds for one snapshot table.
TableCheckAlone(t) ==
    CASE variant = "json" -> cmp_tables_file(t, db, ignore)
      [] variant = "yaml" -> check_tables_columns_table(t, db)
      [] variant = "pytest" -> test_table_structure(t, db, ignore)
      [] OTHER -> << >>

\* The findings of the sub-checks of tables that name the table t.
SubCheckFindingsOn(t) ==
    { i \in 1..Len(findings) :
        /\ findings[i].cat \in { "columns", "pk", "unique", "fk" }
        /\ << t.schema, t.name >> \in findings[i].tables }

\* C16: a compared snapshot table without column rows in the live database
\* is named by no column, PK, UNIQUE or FK finding and, once the tables are
\* compared, by exactly one missing-table finding; the comparison has gone
\* on with the other tables, each of which has its findings.
C16_MissingTableShortCircuit ==
    \A t \in ComparedTables :
        LiveTable(db, t.schema, t.name).cols = << >> =>
            /\ SubCheckFindingsOn(t) = { }
            /\ TablesCompared =>
                  /\ CountOf("tables", "missing", << t.schema, t.name >>) = 1
                  /\ \A t2 \in ComparedTables :
                        TableCheckAlone(t2) # << >>
                        => \E i \in 1..Len(findings) :
                              << t2.schema, t2.name >> \in findings[i].tables

\* C16 witness: a run of the JSON comparator has ended in which a.l, the
\* first snapshot table, is missing from the live database and p.u, the
\* next one, has a column finding.
C16_Witness ==
    /\ pc = "done" /\ TablesCompared /\ variant = "json"
    /\ \E t \in ComparedTables :
          /\ << t.schema, t.name >> = << A, L >>
          /\ LiveTable(db, A, L).cols = << >>
          /\ CountOf("tables", "missing", << A, L >>) = 1
    /\ \E t \in ComparedTables :
          << t.schema, t.name >> = << P, U >> /\ ColumnFindingsOn(t) # { }

\* The snapshot functions and the live functions of the same key, as pairs.
FunctionPairs ==
    { << w, h >> \in Range(snap.functions.rows) \X Range(db.functions) :
        << w.schema, w.name, w.args >> = << h.schema, h.name, OrEmpty(h.args).s >> }

\* C17: for a function in the snapshot and in the live database, the
\* comparator emits a function-changed finding if and only if the
\* definition the exporter hashed and the live definition differ in more
\* than whitespace, that is, have different sequences of non-whitespace
\* tokens (the hash taken as injective).
C17_HashFoldsWhitespace ==
    Settled =>
        \A p \in FunctionPairs :
            LET k == << p[1].schema, p[1].name, p[1].args >>
            IN  (\E i \in FindingsOf("functions", "changed") : k \in findings[i].keys)
                <=> SplitWs(p[1].definition_hash.s, << >>, << >>)
                    # SplitWs(OrEmpty(p[2].definition).s, << >>, << >>)

\* C17 witness: a run has ended with exit status 0 and no finding, the
\* live definition of a snapshot function having other whitespace than the
\* definition that was exported.
C17_Witness ==
    /\ Settled /\ exit_status = 0 /\ findings = << >>
    /\ \E p \in FunctionPairs :
          /\ p[2].definition.s # p[1].definition_hash.s
          /\ \E i \in 1..Len(p[2].definition.s) : p[2].definition.s[i] \in { "\t", "\n" }

\* C18 (as stated): canonicalize maps a null value under a key of
\* normalize_sql_keys to the empty string, as every text normalizer maps
\* a null input.
C18_NullToEmpty ==
    (cpc \in { "first", "second", "done" } /\ cx.t = "dict") =>
        \A i \in 1..Len(cx.k) :
            (cx.k[i] \in ccfg.nrm /\ cx.k[i] \notin ccfg.ign /\ cx.c[i] = NScalar(PyNone))
            => \E j \in 1..Len(cout.k) :
                  cout.k[j] = cx.k[i] /\ cout.c[j] = NScalar(PyStr(<< >>))

\* The maximal runs of non-whitespace of a text, as pairs of first and last
\* position.
TokenRuns(s) ==
    { r \in (1..Len(s)) \X (1..Len(s)) :
        /\ r[1] <= r[2]
        /\ \A i \in r[1]..r[2] : ~IsSpace(s[i])
        /\ (r[1] = 1 \/ IsSpace(s[r[1] - 1]))
        /\ (r[2] = Len(s) \/ IsSpace(s[r[2] + 1])) }

\* The k-th of these runs from the left.
TokenRun(s, k) ==
    CHOOSE r \in TokenRuns(s) :
        Cardinality({ q \in TokenRuns(s) : q[1] < r[1] }) = k - 1

\* out consists of the tokens of s in their order, joined by single spaces.
TokensJoined(s, out) ==
    /\ \A i \in 1..Len(out) : IsSpace(out[i]) =>
          /\ out[i] = " "
          /\ 1 < i /\ i < Len(out)
          /\ ~IsSpace(out[i + 1])
    /\ Cardinality(TokenRuns(out)) = Cardinality(TokenRuns(s))
    /\ \A k \in 1..Cardinality(TokenRuns(s)) :
          SubSeq(out, TokenRun(out, k)[1], TokenRun(out, k)[2])
              = SubSeq(s, TokenRun(s, k)[1], TokenRun(s, k)[2])

\* C19: a normalizer returns, for a string, the maximal non-whitespace
\* tokens of the string in their original order joined by single spaces:
\* no leading or trailing whitespace, no newline, no tab and no two
\* whitespace characters in a row.
C19_TokensJoinedBySpaces ==
    (npc \in { "_norm_sql", "norm", "norm_sql" } /\ ns.t = "str") =>
        nout.t = "str" /\ TokensJoined(ns.s, nout.s)

\* "a  b\na" has been normalized by _norm_sql, to "a b a".
C19_Witness ==
    /\ npc = "_norm_sql"
    /\ ns = PyStr(<< "a", " ", " ", "b", "\n", "a" >>)
    /\ nout = PyStr(<< "a", " ", "b", " ", "a" >>)

\* The step of a key path that enters an element of a list.
ListStep == << "[", "]" >>

\* The paths of the map keys of a tree: the keys and list steps from the
\* root down to the key.
RECURSIVE KeyPaths(_)
KeyPaths(x) ==
    IF x.t = "dict"
    THEN UNION { { << x.k[i] >> } \cup { << x.k[i] >> \o p : p \in KeyPaths(x.c[i]) }
                 : i \in 1..Len(x.k) }
    ELSE IF x.t = "list"
    THEN UNION { { << ListStep >> \o p : p \in KeyPaths(x.c[i]) } : i \in 1..Len(x.c) }
    ELSE { }

\* The key paths that neither end in nor pass through a key of ignore_keys.
RetainedPaths(x, ignore_keys) ==
    { p \in KeyPaths(x) : \A j \in 1..Len(p) : p[j] \notin ignore_keys }

\* C20: the output of canonicalize has no map key of ignore_keys at any
\* depth, in nested maps and in maps that are elements of lists, and it has
\* every map key of the input that is not in ignore_keys and not below an
\* ignored key.
C20_IgnoredKeysDropped ==
    cpc \in { "first", "second", "done" } =>
        /\ \A p \in KeyPaths(cout) : \A j \in 1..Len(p) : p[j] \notin ccfg.ign
        /\ RetainedPaths(cx, ccfg.ign) \subseteq KeyPaths(cout)

\* A list holding a map with the ignored key "i" and the key "d" has been
\* canonicalized: "d" is in the output.
C20_Witness ==
    /\ cpc = "first"
    /\ ccfg.ign = { << "i" >> }
    /\ << ListStep, << "i" >> >> \in KeyPaths(cx)
    /\ << ListStep, << "d" >> >> \in KeyPaths(cout)

\* The (table schema, table, trigger name) keys of trigger rows.
TriggerKeysOf(rows) ==
    { << r.table_schema, r.table_name, r.trigger_name >> : r \in Range(rows) }

\* The event types of the rows of one trigger.
TriggerEvents(rows, k) ==
    { r.event_manipulation :
        r \in { q \in Range(rows) : << q.table_schema, q.table_name, q.trigger_name >> = k } }

\* The strings of a set in ascending order.
Ascending(S) ==
    CHOOSE q \in [1..Cardinality(S) -> S] :
        \A i, j \in 1..Cardinality(S) : i < j => StrLess(q[i], q[j])

\* One record per trigger of the rows: key, timing, and the events of all
\* its rows in ascending order.
TriggerRecords(rows) ==
    { << r.table_schema, r.table_name, r.trigger_name, r.action_timing,
         Ascending(TriggerEvents(rows, << r.table_schema, r.table_name, r.trigger_name >>)) >> :
      r \in Range(rows) }

\* The records of a triggers.json.
SnapshotTriggers ==
    { << w.table_schema, w.table, w.name, w.timing, w.events >> :
        w \in Range(snap.triggers.rows) }

\* C21: the triggers.json of the snapshot holds one record per (table
\* schema, table, trigger name) of the rows it was exported from, with the
\* events of all rows of the trigger in ascending order, whatever the order
\* of the rows; the JSON comparator builds the same records from the live
\* rows, so that its trigger findings list exactly the records on one side
\* only, and a trigger with the same rows on both sides is in no finding.
C21_OneTriggerPerKey ==
    (variant = "json" /\ "triggers" \in ran /\ snap.triggers.exists) =>
        LET kept(S) == { x \in S : ~_should_ignore_table(ignore.tables, x[1], x[2]) }
            want == kept(SnapshotTriggers)
            have == kept(TriggerRecords(db.triggers))
        IN  /\ \E rows \in LiveGlobal("triggers") :
                 /\ SnapshotTriggers = TriggerRecords(rows)
                 /\ Len(snap.triggers.rows) = Cardinality(TriggerKeysOf(rows))
            /\ Reported("triggers", "missing") = want \ have
            /\ Reported("triggers", "unexpected") = have \ want

\* C21 witness: the snapshot holds one trigger with the events i and u, the
\* live database returns the row of u before the row of i, and the run has
\* ended without a trigger finding.
C21_Witness ==
    /\ variant = "json" /\ pc = "done" /\ ~fatal /\ raised = 0 /\ ignore = NoIgnore
    /\ "triggers" \in ran
    /\ Len(snap.triggers.rows) = 1
    /\ snap.triggers.rows[1].events = << << "i" >>, << "u" >> >>
    /\ Len(db.triggers) = 2
    /\ db.triggers[1].event_manipulation = << "u" >>
    /\ Reported("triggers", "missing") = { }
    /\ Reported("triggers", "unexpected") = { }

\* The place of a finding's category in the sequence of the checks of main.
CategoryRank(cat) ==
    CASE cat \in { "tables", "columns", "pk", "unique", "fk" } -> 1
      [] cat = "views" -> 2
      [] cat = "functions" -> 3
      [] cat \in { "roles", "role_memberships" } -> 4
      [] cat \in { "sequences", "seq_ownerships" } -> 5
      [] cat = "indexes" -> 6
      [] cat = "triggers" -> 7
      [] cat = "table_owners" -> 8
      [] OTHER -> 9

\* The findings of the table checks name one table each.
TableOfFinding(f) == CHOOSE t \in f.tables : TRUE

\* C22 (as stated): at the end of a run of the JSON or YAML comparator the
\* findings are in the order of the categories, and the findings of the
\* table checks are in ascending order of (schema, table), whatever the
\* order in which the snapshot lists its tables.
C22_FindingsOrdered ==
    Settled =>
        \A i, j \in 1..Len(findings) :
            i < j =>
                /\ CategoryRank(findings[i].cat) <= CategoryRank(findings[j].cat)
                /\ (CategoryRank(findings[i].cat) = 1 /\ CategoryRank(findings[j].cat) = 1)
                   => ~TupleLess(TableOfFinding(findings[j]), TableOfFinding(findings[i]))

\* C23 (as stated): for the snapshot, the live database and the ignore
\* configuration of a run of the JSON comparator that has ended without a
\* failing query, the diff report shows no differing line if and only if
\* the list of findings is empty.
C23_DiffIffFindings ==
    (variant = "json" /\ pc = "done" /\ ~fatal /\ raised = 0 /\ diff.ran) =>
        (diff.sections = { } <=> findings = << >>)

\* The findings of main() run alone on a snapshot, a database and an ignore
\* configuration.
RECURSIVE FindingsAlone(_, _, _, _)
FindingsAlone(snapshot, database, ignore_cfg, step) ==
    LET files == SortedFiles(snapshot.tables, << >>)
    IN  IF step > Len(files) + Len(GlobalChecks) THEN << >>
        ELSE (IF step <= Len(files)
              THEN cmp_tables_file(files[step], database, ignore_cfg)
              ELSE GlobalCheck(GlobalChecks[step - Len(files)], snapshot, database,
                               ignore_cfg))
             \o FindingsAlone(snapshot, database, ignore_cfg, step + 1)

\* C24 (as stated): when a run of two runs in one process with different
\* ignore configurations has ended, its findings are the findings of the
\* run alone on its snapshot, its database and its ignore configuration,
\* under every interleaving.
C24_RunsIndependent ==
    \A r \in DOMAIN tpc :
        tpc[r].at = "done" => tfindings[r] = FindingsAlone(tsnap, tdb, tcfg[r], 1)

\* C25: when a call of extract_all_schemas has returned or raised, every
\* connection the extractor has opened is closed; every query was issued on
\* an open connection; and a call opens at most one connection.
C25_ConnectionReleased ==
    /\ xpc \in { "returned", "raised" } => \A i \in 1..Len(conns) : conns[i] = "closed"
    /\ \A q \in queries : q.on = "open"
    /\ Len(conns) <= xcalls
    /\ Cardinality({ i \in 1..Len(conns) : conns[i] = "open" }) <= 1

\* C25 witness: the second call has raised after a query, the first call
\* having returned; both connections are closed.
C25_Witness ==
    /\ xpc = "raised" /\ xcalls = 2 /\ Len(conns) = 2
    /\ conns = << "closed", "closed" >>
    /\ \E q \in queries : q.call = 2
    /\ "sequences" \in xfiles

\* The snapshot of the run is what the JSON exporter writes for the
\* database of the run.
SnapshotIsExportOfDb ==
    /\ snap.tables_dir
    /\ Len(snap.tables) = Len(ListTables(db))
    /\ Range(snap.tables)
         = { ExportedTable(k[1], k[2], db.tables[k]) : k \in Range(ListTables(db)) }
    /\ \A i \in 1..Len(GlobalFiles) :
          snap[GlobalFiles[i]] = File(ExportedGlobal(GlobalFiles[i], db, IncludeSchemas, { }))

\* C26 (as stated): a run with an empty ignore configuration on a database
\* and the snapshot exported from that same database ends with no finding
\* and exit status 0.
C26_RoundTrip ==
    (Settled /\ ignore = NoIgnore /\ SnapshotIsExportOfDb) =>
        (findings = << >> /\ exit_status = 0)

\* What safe_api_call owes its caller at every moment: the position is one of
\* the wrapper's own, func was called at most RETRY_COUNT times, and once the
\* wrapper has returned, every call before the last raised a RequestException
\* and was followed by one sleep of RETRY_DELAY, and the last call either
\* returned the value handed back, or was the RETRY_COUNT-th failed request,
\* or raised another Exception, both giving None with no sleep after it.
RetryContract ==
    /\ apc \in { "call", "sleep", "returned" }
    /\ acalls <= RETRY_COUNT
    /\ apc = "returned" =>
          /\ acalls >= 1
          /\ \A i \in 1..(acalls - 1) : afunc[i].kind = "RequestException"
          /\ aslept = (acalls - 1) * RETRY_DELAY
          /\ CASE afunc[acalls].kind = "return" -> aret = afunc[acalls].value
               [] afunc[acalls].kind = "RequestException" ->
                      acalls = RETRY_COUNT /\ aret = PyNone
               [] OTHER -> aret = PyNone

C28_RunnerOrder ==
    /\ \E n \in 0..3 : ustarted = SubSeq(<< "export", "diff", "pytest" >>, 1, n)
    /\ (uenv.export.n # 0 /\ Len(ustarted) >= 1) =>
          (ustarted = << "export" >> /\ upc = "exited" /\ uexit # 0)
    /\ (upc = "exited" /\ uenv.config /\ uenv.export.n = 0) =>
          /\ ustarted = << "export", "diff", "pytest" >>
          /\ uwarned = (uenv.diff.n # 0)
    /\ (upc = "exited" /\ Len(ustarted) = 3 /\ uenv.pytest.kind = "exit") =>
          uexit = uenv.pytest.n

\* The diff report failed, was warned about, and pytest's code 5 became the
\* runner's.
C28_Witness ==
    /\ upc = "exited" /\ uenv.diff.n = 2 /\ uwarned
    /\ ustarted = << "export", "diff", "pytest" >>
    /\ uenv.pytest = [kind |-> "exit", n |-> 5] /\ uexit = 5

\* How often x stands in the list q.
Occurrences(q, x) == Cardinality({ i \in 1..Len(q) : q[i] = x })

\* C29 (as stated): once separate_ddl_statements has returned, every statement
\* of the input stands in the two returned lists together, closed by its
\* semicolon, exactly as often as it stands in the input.
C29_NothingLost ==
    fpc = "returned" =>
        \A s \in Range(statements) :
            Occurrences(new_table_ddl, Append(s, ";"))
                + Occurrences(alters_for_existing, Append(s, ";"))
              = Occurrences(statements, s)

\* C30 (as stated): every dataset file is compared under the table name that
\* is the row tag the exporter wrote into it, whatever the schema and table
\* names are.
C30_NameRoundTrip ==
    bpc = "done" =>
        /\ compared # { }
        /\ \A c \in compared :
              \E f \in datasets : f.path = c.path /\ f.tag = c.table_name

====
